---- MODULE Spec2Model ----
(***************************************************************************)
(* Financial-News-Sentiment-Analysis: the rule-based sentiment classifiers *)
(* (run_backend.py NewsAPI.analyze_sentiment, backend.py                   *)
(* analyze_sentiment) and the request pipeline around them (corpus,        *)
(* date filtering, sorting, truncation).                                   *)
(*                                                                         *)
(* Python values are modelled by what the interpreter computes:            *)
(*   - str      : a TLA+ string, read character by character;              *)
(*   - float    : an IEEE-754 binary64 value m * 2^e with a 53-bit         *)
(*                mantissa m, every operation rounded to nearest, ties to  *)
(*                even;                                                    *)
(*   - datetime : a day ordinal, a second of the day and a microsecond.    *)
(***************************************************************************)
EXTENDS Integers, Sequences, FiniteSets, TLC

(***************************************************************************)
(* Natural numbers wider than the model checker's integers: little-endian  *)
(* sequences of limbs in 0..LimbBase-1 with no leading zero limb.          *)
(***************************************************************************)
LimbBits == 13
LimbBase == 2 ^ LimbBits

Min(a, b) == IF a < b THEN a ELSE b
Max(a, b) == IF a > b THEN a ELSE b

LNorm(x) ==
    LET nz == {i \in 1..Len(x) : x[i] # 0}
    IN  IF nz = {} THEN <<>>
        ELSE SubSeq(x, 1, CHOOSE i \in nz : \A j \in nz : j <= i)

LimbAt(x, i) == IF i >= 1 /\ i <= Len(x) THEN x[i] ELSE 0

RECURSIVE NatLimbs(_)
NatLimbs(n) == IF n = 0 THEN <<>> ELSE <<n % LimbBase>> \o NatLimbs(n \div LimbBase)

\* digits[i] may exceed LimbBase: carry them upwards
RECURSIVE LCarry(_, _, _, _)
LCarry(digits, i, carry, acc) ==
    IF i > Len(digits)
    THEN (IF carry = 0 THEN LNorm(acc) ELSE LNorm(acc \o NatLimbs(carry)))
    ELSE LCarry(digits, i + 1, (digits[i] + carry) \div LimbBase,
                Append(acc, (digits[i] + carry) % LimbBase))

LAdd(x, y) ==
    LCarry([i \in 1..Max(Len(x), Len(y)) |-> LimbAt(x, i) + LimbAt(y, i)], 1, 0, <<>>)

RECURSIVE LColumn(_, _, _, _)
LColumn(x, y, j, i) ==
    IF i > Len(x) THEN 0
    ELSE LimbAt(x, i) * LimbAt(y, j - i + 1) + LColumn(x, y, j, i + 1)

LMul(x, y) ==
    IF x = <<>> \/ y = <<>> THEN <<>>
    ELSE LCarry([j \in 1..(Len(x) + Len(y)) |-> LColumn(x, y, j, 1)], 1, 0, <<>>)

\* x * 2^s
LShl(x, s) ==
    IF x = <<>> THEN <<>>
    ELSE [i \in 1..(s \div LimbBits) |-> 0]
         \o LCarry([i \in 1..Len(x) |-> x[i] * 2 ^ (s % LimbBits)], 1, 0, <<>>)

\* floor(x / 2^s)
LShr(x, s) ==
    LET q == s \div LimbBits
        r == s % LimbBits
    IN  LNorm([j \in 1..Max(Len(x) - q, 0) |->
                  (LimbAt(x, q + j) \div 2 ^ r)
                  + (LimbAt(x, q + j + 1) % 2 ^ r) * 2 ^ (LimbBits - r)])

\* bit i of x, the least significant being bit 1
LBit(x, i) == (LimbAt(x, (i - 1) \div LimbBits + 1) \div 2 ^ ((i - 1) % LimbBits)) % 2

LBitLen(x) ==
    IF x = <<>> THEN 0
    ELSE (Len(x) - 1) * LimbBits
         + (CHOOSE k \in 1..LimbBits : 2 ^ (k - 1) <= x[Len(x)] /\ x[Len(x)] < 2 ^ k)

LLess(x, y) ==
    IF Len(x) # Len(y) THEN Len(x) < Len(y)
    ELSE \E i \in 1..Len(x) : x[i] < y[i] /\ \A j \in (i + 1)..Len(x) : x[j] = y[j]

\* quotient and remainder of x by a small divisor d, most significant limb first
RECURSIVE LDivFrom(_, _, _, _, _)
LDivFrom(x, d, i, rem, q) ==
    IF i = 0 THEN [q |-> LNorm(q), r |-> rem]
    ELSE LDivFrom(x, d, i - 1, (rem * LimbBase + x[i]) % d,
                  <<(rem * LimbBase + x[i]) \div d>> \o q)

LDivSmall(x, d) == LDivFrom(x, d, Len(x), 0, <<>>)

(***************************************************************************)
(* Python float: IEEE-754 binary64.  A value is [m, e], m * 2^e, with m    *)
(* zero or of exactly MantissaBits bits.  The values of this program are   *)
(* non-negative and far from the exponent limits.                          *)
(***************************************************************************)
MantissaBits == 53

FZero == [m |-> <<>>, e |-> 0]

\* x * 2^e rounded to the nearest float, ties to even
FRound(x, e) ==
    LET n == LBitLen(x)
        s == n - MantissaBits
    IN  IF n = 0 THEN FZero
        ELSE IF s <= 0 THEN [m |-> LShl(x, -s), e |-> e + s]
        ELSE LET kept == LShr(x, s)
                 guard == LBit(x, s)
                 sticky == \E i \in 1..(s - 1) : LBit(x, i) = 1
                 up == guard = 1 /\ (sticky \/ LBit(kept, 1) = 1)
                 r == IF up THEN LAdd(kept, <<1>>) ELSE kept
             IN  IF LBitLen(r) > MantissaBits
                 THEN [m |-> LShr(r, 1), e |-> e + s + 1]
                 ELSE [m |-> r, e |-> e + s]

\* float(n) of an int n >= 0
FFromInt(n) == FRound(NatLimbs(n), 0)

\* the float a decimal literal num/den denotes (0.8 is FLiteral(8, 10))
FLiteral(num, den) ==
    LET scale == 2 * MantissaBits + LimbBits
        d == LDivSmall(LShl(NatLimbs(num), scale), den)
    IN  FRound(LAdd(LShl(d.q, 1), IF d.r = 0 THEN <<>> ELSE <<1>>), -(scale + 1))

FMul(x, y) == FRound(LMul(x.m, y.m), x.e + y.e)

FAdd(x, y) ==
    IF x.m = <<>> THEN y
    ELSE IF y.m = <<>> THEN x
    ELSE FRound(LAdd(LShl(x.m, x.e - Min(x.e, y.e)), LShl(y.m, y.e - Min(x.e, y.e))),
                Min(x.e, y.e))

\* x < y
FLess(x, y) ==
    IF y.m = <<>> THEN FALSE
    ELSE IF x.m = <<>> THEN TRUE
    ELSE LLess(LShl(x.m, x.e - Min(x.e, y.e)), LShl(y.m, y.e - Min(x.e, y.e)))

FLessEq(x, y) == ~FLess(y, x)

(***************************************************************************)
(* random.random(): (a * 2^26 + b) / 2^53 for a 27-bit a and a 26-bit b.   *)
(***************************************************************************)
RandomHighBits == 27
RandomLowBits == 26

Random(draw) ==
    FRound(LAdd(LShl(NatLimbs(draw.a), RandomLowBits), NatLimbs(draw.b)),
           -(RandomHighBits + RandomLowBits))

(***************************************************************************)
(* Python str: the characters of a string s are SubSeq(s, i, i).           *)
(***************************************************************************)
UpperLetters == "ABCDEFGHIJKLMNOPQRSTUVWXYZ"
LowerLetters == "abcdefghijklmnopqrstuvwxyz"
Digits == "0123456789"

Char(s, i) == SubSeq(s, i, i)

\* position of the one-character string c in s, 0 when absent
IndexOf(s, c) ==
    IF \E i \in 1..Len(s) : Char(s, i) = c
    THEN CHOOSE i \in 1..Len(s) : Char(s, i) = c
    ELSE 0

CharSet(s) == {Char(s, i) : i \in 1..Len(s)}
UpperSet == CharSet(UpperLetters)
LowerSet == CharSet(LowerLetters)

LowerChar(c) ==
    IF c \in UpperSet THEN Char(LowerLetters, IndexOf(UpperLetters, c)) ELSE c

UpperChar(c) ==
    IF c \in LowerSet THEN Char(UpperLetters, IndexOf(LowerLetters, c)) ELSE c

\* str.lower()
RECURSIVE lower(_)
lower(s) ==
    IF Len(s) = 0 THEN ""
    ELSE IF Len(s) = 1 THEN LowerChar(s)
    ELSE lower(SubSeq(s, 1, Len(s) \div 2)) \o lower(SubSeq(s, Len(s) \div 2 + 1, Len(s)))

\* str.upper()
RECURSIVE upper(_)
upper(s) ==
    IF Len(s) = 0 THEN ""
    ELSE IF Len(s) = 1 THEN UpperChar(s)
    ELSE upper(SubSeq(s, 1, Len(s) \div 2)) \o upper(SubSeq(s, Len(s) \div 2 + 1, Len(s)))

\* sub in s
Contains(s, sub) ==
    \E i \in 1..(Len(s) - Len(sub) + 1) : SubSeq(s, i, i + Len(sub) - 1) = sub

\* the regular expression class \w
WordChars == CharSet(LowerLetters) \cup CharSet(UpperLetters) \cup CharSet(Digits) \cup {"_"}
IsWordChar(c) == c \in WordChars

\* re.findall(r'\b\w+\b', s): the maximal runs of word characters, in order
WordStarts(s) ==
    {i \in 1..Len(s) : IsWordChar(Char(s, i)) /\ (i = 1 \/ ~IsWordChar(Char(s, i - 1)))}

WordEnd(s, i) ==
    CHOOSE j \in i..Len(s) :
        /\ \A k \in i..j : IsWordChar(Char(s, k))
        /\ (j = Len(s) \/ ~IsWordChar(Char(s, j + 1)))

findall_words(s) ==
    LET starts == WordStarts(s)
        nth(k) == CHOOSE i \in starts : Cardinality({j \in starts : j <= i}) = k
    IN  [k \in 1..Cardinality(starts) |-> SubSeq(s, nth(k), WordEnd(s, nth(k)))]

(***************************************************************************)
(* Python values reaching the classifier: [str |-> s] is a str, anything   *)
(* else (a JSON number in a request body, [int |-> n]) is not.             *)
(***************************************************************************)
IsStr(v) == "str" \in DOMAIN v

Returned(sentiment, score) == [sentiment |-> sentiment, score |-> score]
Raised(exception) == [raised |-> exception]
HasRaised(r) == "raised" \in DOMAIN r

(***************************************************************************)
(* run_backend.py, NewsAPI.analyze_sentiment                               *)
(***************************************************************************)
positive_keywords ==
    {"surge", "record", "exceeding", "strong", "grow", "growth", "breakthrough", "positive",
     "profit", "gains", "upgrade", "beat", "success", "innovation", "outperform", "bullish",
     "earnings", "upside", "rally", "recovery", "advantage", "rise", "improved", "expand"}

negative_keywords ==
    {"downgrade", "concerns", "vulnerabilities", "issues", "challenges", "mount", "labor",
     "divided", "volatility", "fears", "recession", "plunge", "crash", "drop", "fall", "loss",
     "decline", "bearish", "disappointing", "missed", "lawsuit", "investigation", "problem",
     "risk", "struggle", "warn", "warning", "crisis", "cut", "debt", "layoff", "bankruptcy",
     "scandal", "fraud", "fine", "penalty", "default", "negative", "underperform", "slump",
     "downturn", "trouble", "failure", "weak", "poor"}

strong_negative_phrases ==
    {"stock plunges", "shares plunge", "stock plummets", "shares plummet", "stock crashes",
     "shares crash", "stock tanks", "shares tank", "stock collapses", "shares collapse",
     "disappointing results", "missed expectations", "shareholder lawsuit", "class action",
     "stock downgrade", "rating downgrade", "bankruptcy filing", "fraud allegations",
     "major losses", "financial troubles", "revenue miss"}

\* [kw.lower() for kw in ...]
LowerAll(keywords) == {lower(kw) : kw \in keywords}
positive_keywords_lower == LowerAll(positive_keywords)
negative_keywords_lower == LowerAll(negative_keywords)
strong_negative_phrases_lower == LowerAll(strong_negative_phrases)

\* for phrase in strong_negative_phrases: if phrase.lower() in text.lower()
HasStrongNegativePhrase(s) ==
    LET t == lower(s)
    IN  \E phrase \in strong_negative_phrases_lower : Contains(t, phrase)

\* for word in words: if word in [...]: count += 1
KeywordCount(words, keywords) == Cardinality({k \in DOMAIN words : words[k] \in keywords})

positive_count(words) == KeywordCount(words, positive_keywords_lower)
negative_count(words) == KeywordCount(words, negative_keywords_lower)

\* the float literals of the classifiers
F_1_2 == FLiteral(12, 10)
F_0_8 == FLiteral(8, 10)
F_0_2 == FLiteral(2, 10)
F_0_7 == FLiteral(7, 10)
F_0_3 == FLiteral(3, 10)
F_0_5 == FLiteral(5, 10)
F_0_4 == FLiteral(4, 10)

\* mutant: the negative count is not weighted
weighted_negative_unweighted(n) == FFromInt(n)

\* weighted_negative = negative_count * 1.2
weighted_negative(n) == FMul(FFromInt(n), F_1_2)

\* mutant: the jitter of the strong-negative branch is as wide as the others
StrongScoreWide(draw) == FAdd(F_0_8, FMul(Random(draw), F_0_3))

\* 0.8 + (random.random() * 0.2)
StrongScore(draw) == FAdd(F_0_8, FMul(Random(draw), F_0_2))
\* 0.7 + (random.random() * 0.3)
DecidedScore(draw) == FAdd(F_0_7, FMul(Random(draw), F_0_3))
\* 0.5 + (random.random() * 0.4)
NeutralScore(draw) == FAdd(F_0_5, FMul(Random(draw), F_0_4))

\* mutant: elif weighted_negative >= positive_count, so a tie is negative
KeywordDecisionNoNeutral(p, n, draw) ==
    IF FLess(weighted_negative(n), FFromInt(p))
    THEN Returned("positive", DecidedScore(draw))
    ELSE Returned("negative", DecidedScore(draw))

\* mutant: a label whose drawn score is below 0.75 is taken back to neutral
KeywordDecisionByScore(p, n, draw) ==
    IF FLess(DecidedScore(draw), FLiteral(75, 100))
    THEN Returned("neutral", NeutralScore(draw))
    ELSE IF FLess(weighted_negative(n), FFromInt(p))
    THEN Returned("positive", DecidedScore(draw))
    ELSE IF FLess(FFromInt(p), weighted_negative(n))
    THEN Returned("negative", DecidedScore(draw))
    ELSE Returned("neutral", NeutralScore(draw))

\* the if/elif/else on the two counts
KeywordDecision(p, n, draw) ==
    IF FLess(weighted_negative(n), FFromInt(p))
    THEN Returned("positive", DecidedScore(draw))
    ELSE IF FLess(FFromInt(p), weighted_negative(n))
    THEN Returned("negative", DecidedScore(draw))
    ELSE Returned("neutral", NeutralScore(draw))

\* mutant: the keywords are counted first and the phrases only break a tie
analyze_sentiment_counts_first(t, draw) ==
    IF ~IsStr(t) THEN Raised("AttributeError")
    ELSE LET words == findall_words(lower(t.str))
             byCount == KeywordDecision(positive_count(words), negative_count(words), draw)
         IN  IF byCount.sentiment = "neutral" /\ HasStrongNegativePhrase(t.str)
             THEN Returned("negative", StrongScore(draw))
             ELSE byCount

analyze_sentiment(t, draw) ==
    IF ~IsStr(t) THEN Raised("AttributeError")
    ELSE IF HasStrongNegativePhrase(t.str)
    THEN Returned("negative", StrongScore(draw))
    ELSE LET words == findall_words(lower(t.str))
         IN  KeywordDecision(positive_count(words), negative_count(words), draw)

(***************************************************************************)
(* backend.py, analyze_sentiment                                           *)
(***************************************************************************)
backend_positive_keywords_raw ==
    {"surge", "record", "exceeding", "strong", "grow", "growth", "breakthrough", "positive"}

backend_negative_keywords_raw ==
    {"downgrade", "concerns", "vulnerabilities", "issues", "challenges", "mount", "labor",
     "divided", "volatility", "fears", "recession"}

\* word.lower() for word in ...
backend_positive_keywords == LowerAll(backend_positive_keywords_raw)
backend_negative_keywords == LowerAll(backend_negative_keywords_raw)

\* sum(1 for word in keywords if word.lower() in text.lower())
SubstringCount(s, keywords) ==
    LET t == lower(s)
    IN  Cardinality({word \in keywords : Contains(t, word)})

backend_analyze_sentiment(t, draw) ==
    IF ~IsStr(t) THEN Raised("AttributeError")
    ELSE LET p == SubstringCount(t.str, backend_positive_keywords)
             n == SubstringCount(t.str, backend_negative_keywords)
         IN  IF p > n THEN Returned("positive", DecidedScore(draw))
             ELSE IF n > p THEN Returned("negative", DecidedScore(draw))
             ELSE Returned("neutral", NeutralScore(draw))

(***************************************************************************)
(* State.  The servers keep nothing between requests: the state is the     *)
(* request being served, what its environment gives it and what has been   *)
(* computed for it.                                                        *)
(*   text      the value handed to the classifier                          *)
(*   first     the first classifier call on text: [fn, draw, out]          *)
(*   second    a further classifier call on the same text                  *)
(*   request   the parameters of the news request                          *)
(*   clock     the system clock: its reading when the request starts and   *)
(*             the time that passes between two readings                    *)
(*   stream    the values random.random() returns, in order                *)
(*   fault     the headlines on which the analysis is made to raise        *)
(*   corrupt   the headlines whose corpus entry carries a published_date   *)
(*             that is not in the format the loop parses                   *)
(*   response  what the request returned: [fn, news]                       *)
(* The dashboard of run_frontend.py keeps state between the runs of its    *)
(* script:                                                                 *)
(*   session_state  st.session_state, a dict                               *)
(*   cache          the entries st.cache_data holds for the three fetch    *)
(*                  functions                                              *)
(*   widgets        the values the widgets of the page hold                *)
(***************************************************************************)
VARIABLES text, first, second, request, clock, stream, fault, corrupt, session_state,
          cache, widgets, response
vars == <<text, first, second, request, clock, stream, fault, corrupt, session_state,
          cache, widgets, response>>

\* the dashboard is not running
NoDashboard == session_state = <<>> /\ cache = <<>> /\ widgets = <<>>

(***************************************************************************)
(* Python values None, int, str and their truth value                      *)
(***************************************************************************)
None == [none |-> TRUE]
PyStr(s) == [str |-> s]
PyInt(n) == [int |-> n]
IsInt(v) == "int" \in DOMAIN v
Truthy(v) ==
    IF IsStr(v) THEN v.str # ""
    ELSE IF IsInt(v) THEN v.int # 0
    ELSE FALSE

(***************************************************************************)
(* datetime: a naive datetime is a day (counted from 1970-01-01), the      *)
(* second of that day and the microsecond of that second.                  *)
(***************************************************************************)
SecondsPerHour == 3600
SecondsPerDay == 86400
MicrosPerSecond == 1000000

datetime(day, sec, us) == [day |-> day, sec |-> sec, us |-> us]

IsLeap(y) == y % 4 = 0 /\ (y % 100 # 0 \/ y % 400 = 0)
DaysInMonth(y, m) ==
    IF m = 2 THEN (IF IsLeap(y) THEN 29 ELSE 28)
    ELSE IF m \in {4, 6, 9, 11} THEN 30
    ELSE 31

\* the day number of the civil date y-m-d
DaysFromCivil(y, m, d) ==
    LET yy == IF m <= 2 THEN y - 1 ELSE y
        era == yy \div 400
        yoe == yy - era * 400
        mp == IF m > 2 THEN m - 3 ELSE m + 9
        doy == (153 * mp + 2) \div 5 + d - 1
        doe == yoe * 365 + yoe \div 4 - yoe \div 100 + doy
    IN  era * 146097 + doe - 719468

\* the civil date [year, month, day] of a day number
CivilFromDays(day) ==
    LET z == day + 719468
        era == z \div 146097
        doe == z - era * 146097
        yoe == (doe - doe \div 1460 + doe \div 36524 - doe \div 146096) \div 365
        doy == doe - (365 * yoe + yoe \div 4 - yoe \div 100)
        mp == (5 * doy + 2) \div 153
        m == IF mp < 10 THEN mp + 3 ELSE mp - 9
    IN  [year |-> yoe + era * 400 + (IF m <= 2 THEN 1 ELSE 0),
         month |-> m,
         day |-> doy - (153 * mp + 2) \div 5 + 1]

\* datetime.min and datetime.max, as day numbers
MinDay == DaysFromCivil(1, 1, 1)
MaxDay == DaysFromCivil(9999, 12, 31)
\* the largest number of days a timedelta holds
MaxDeltaDays == 999999999

\* a < b, a <= b on naive datetimes
DtLess(a, b) ==
    \/ a.day < b.day
    \/ a.day = b.day /\ a.sec < b.sec
    \/ a.day = b.day /\ a.sec = b.sec /\ a.us < b.us
DtLessEq(a, b) == ~DtLess(b, a)

\* dt - timedelta(days=days, hours=hours): OverflowError outside the range
\* of timedelta or of datetime
DtMinus(dt, days, hours) ==
    LET s == dt.sec - hours * SecondsPerHour
        day == dt.day - days + s \div SecondsPerDay
    IN  IF days > MaxDeltaDays \/ days < -MaxDeltaDays THEN Raised("OverflowError")
        ELSE IF day < MinDay \/ day > MaxDay THEN Raised("OverflowError")
        ELSE datetime(day, s % SecondsPerDay, dt.us)

\* dt + timedelta(microseconds=us), us >= 0
DtPlusMicros(dt, us) ==
    LET u == dt.us + us
        s == dt.sec + u \div MicrosPerSecond
    IN  datetime(dt.day + s \div SecondsPerDay, s % SecondsPerDay, u % MicrosPerSecond)

\* dt.replace(hour=23, minute=59, second=59)
EndOfDay(dt) == datetime(dt.day, 23 * SecondsPerHour + 59 * 60 + 59, dt.us)

\* str(n).zfill(width), n >= 0
RECURSIVE Zfill(_, _)
Zfill(n, width) ==
    IF width <= 0 /\ n = 0 THEN ""
    ELSE Zfill(n \div 10, width - 1) \o Char(Digits, (n % 10) + 1)

\* "%Y-%m-%d" of the civil date c
FormatDate(c) ==
    Zfill(c.year, 4) \o "-" \o Zfill(c.month, 2) \o "-" \o Zfill(c.day, 2)

\* dt.strftime("%Y-%m-%d")
strftime_date(dt) == FormatDate(CivilFromDays(dt.day))

\* dt.strftime("%Y-%m-%d %H:%M:%S"): the microsecond is dropped
strftime(dt) ==
    strftime_date(dt) \o " " \o Zfill(dt.sec \div SecondsPerHour, 2)
        \o ":" \o Zfill((dt.sec % SecondsPerHour) \div 60, 2)
        \o ":" \o Zfill(dt.sec % 60, 2)

DigitSet == CharSet(Digits)
WhitespaceSet == {" ", "\t", "\n", "\r"}

\* the end of the run of digits of s that starts at i (i - 1 when none does)
RECURSIVE DigitEnd(_, _)
DigitEnd(s, i) ==
    IF i <= Len(s) /\ Char(s, i) \in DigitSet THEN DigitEnd(s, i + 1) ELSE i - 1

\* the end of the run of whitespace of s that starts at i
RECURSIVE SpaceEnd(_, _)
SpaceEnd(s, i) ==
    IF i <= Len(s) /\ Char(s, i) \in WhitespaceSet THEN SpaceEnd(s, i + 1) ELSE i - 1

\* int(s) for a string of digits
RECURSIVE ToInt(_)
ToInt(s) ==
    IF s = "" THEN 0
    ELSE ToInt(SubSeq(s, 1, Len(s) - 1)) * 10 + (IndexOf(Digits, Char(s, Len(s))) - 1)

NoMatch == [ok |-> FALSE]

\* the number v read by a directive is one of lo..hi; next is what follows
Matched(v, lo, hi, next) ==
    IF v < lo \/ v > hi THEN NoMatch ELSE [ok |-> TRUE, v |-> v, next |-> next]

\* the digits of s from i to j are as many as widths allows
DigitsMatch(s, i, j, widths, lo, hi) ==
    IF (j - i + 1) \notin widths THEN NoMatch
    ELSE Matched(ToInt(SubSeq(s, i, j)), lo, hi, j + 1)

\* a numeric directive at position i of s: the digits there must be as many
\* as widths allows and read as a number of lo..hi
Directive(s, i, widths, lo, hi) ==
    DigitsMatch(s, i, DigitEnd(s, i), widths, lo, hi)

\* %d also takes a digit 1..9 written after one space
DayDirective(s, i) ==
    IF i < Len(s) /\ Char(s, i) = " " /\ DigitEnd(s, i + 1) = i + 1
    THEN Directive(s, i + 1, {1}, 1, 9)
    ELSE Directive(s, i, {1, 2}, 1, 31)

\* the literal character c at position i of s
Literal(s, i, c) == i <= Len(s) /\ Char(s, i) = c

\* "%Y-%m-%d" read from position 1 of s: [ok, day, next]; y, m and d are
\* what the directives %Y, %m and %d matched
DateAfterDay(y, m, d) ==
    IF ~d.ok THEN NoMatch
    ELSE IF d.v > DaysInMonth(y.v, m.v) THEN NoMatch
    ELSE [ok |-> TRUE, day |-> DaysFromCivil(y.v, m.v, d.v), next |-> d.next]

DateAfterMonth(s, y, m) ==
    IF ~m.ok \/ ~Literal(s, m.next, "-") THEN NoMatch
    ELSE DateAfterDay(y, m, DayDirective(s, m.next + 1))

DateAfterYear(s, y) ==
    IF ~y.ok \/ ~Literal(s, y.next, "-") THEN NoMatch
    ELSE DateAfterMonth(s, y, Directive(s, y.next + 1, {1, 2}, 1, 12))

ParseDate(s) == DateAfterYear(s, Directive(s, 1, {4}, 1, 9999))

\* ValueError unless all of s is the date d
WholeDate(s, d) ==
    IF d.ok /\ d.next = Len(s) + 1 THEN datetime(d.day, 0, 0)
    ELSE Raised("ValueError")

\* datetime.strptime(s, "%Y-%m-%d")
strptime_date(s) == WholeDate(s, ParseDate(s))

\* " %H:%M:%S" read after the date d: sp is the end of the whitespace, h, mi
\* and se are what the directives %H, %M and %S matched
TimeAfterSecond(s, d, h, mi, se) ==
    IF ~se.ok \/ se.next # Len(s) + 1 THEN Raised("ValueError")
    ELSE datetime(d.day, h.v * SecondsPerHour + mi.v * 60 + se.v, 0)

TimeAfterMinute(s, d, h, mi) ==
    IF ~mi.ok \/ ~Literal(s, mi.next, ":") THEN Raised("ValueError")
    ELSE TimeAfterSecond(s, d, h, mi, Directive(s, mi.next + 1, {1, 2}, 0, 59))

TimeAfterHour(s, d, sp, h) ==
    IF sp < d.next \/ ~h.ok \/ ~Literal(s, h.next, ":") THEN Raised("ValueError")
    ELSE TimeAfterMinute(s, d, h, Directive(s, h.next + 1, {1, 2}, 0, 59))

TimeAfterDate(s, d) ==
    IF ~d.ok THEN Raised("ValueError")
    ELSE TimeAfterHour(s, d, SpaceEnd(s, d.next),
             Directive(s, SpaceEnd(s, d.next) + 1, {1, 2}, 0, 23))

\* datetime.strptime(s, "%Y-%m-%d %H:%M:%S")
strptime(s) == TimeAfterDate(s, ParseDate(s))

\* the printable characters that occur in the strings compared, in the order
\* of their code points
CodePoints ==
    " !#$%&'()*+,-./0123456789:;<=>?@ABCDEFGHIJKLMNOPQRSTUVWXYZ[]^_abcdefghijklmnopqrstuvwxyz{|}~"

\* the first position at which a and b differ, from i on
RECURSIVE FirstDifference(_, _, _)
FirstDifference(a, b, i) ==
    IF i > Len(a) \/ i > Len(b) \/ Char(a, i) # Char(b, i) THEN i
    ELSE FirstDifference(a, b, i + 1)

\* a < b on str
StrLess(a, b) ==
    IF a = b THEN FALSE
    ELSE LET i == FirstDifference(a, b, 1)
         IN  IF i > Len(a) THEN TRUE
             ELSE IF i > Len(b) THEN FALSE
             ELSE IndexOf(CodePoints, Char(a, i)) < IndexOf(CodePoints, Char(b, i))

(***************************************************************************)
(* What a request reads from its environment.  env counts what the request *)
(* has consumed so far: read, the readings of the clock, and drawn, the    *)
(* values of random.random().                                              *)
(***************************************************************************)
\* datetime.now(), read for the k-th time since the request started
Now(k) == DtPlusMicros(clock.start, k * clock.step)

\* the value random.random() returns after n earlier calls
DrawAt(n) == stream[(n % Len(stream)) + 1]

Classify(fn, t, draw) ==
    IF fn = "NewsAPI.analyze_sentiment" THEN analyze_sentiment(t, draw)
    ELSE backend_analyze_sentiment(t, draw)

\* the analysis of a headline, which raises where a test patches it to raise
Analysis(fn, title, draw) ==
    IF title \in fault THEN Raised("Exception")
    ELSE Classify(fn, PyStr(title), draw)

(***************************************************************************)
(* The demo corpus of get_financial_news.  Every entry is stamped with its *)
(* own reading of the clock, the entries of all five known tickers and the *)
(* default ones included: k is the number of the reading.                  *)
(***************************************************************************)
Entry(title, publisher, link, k, days, hours) ==
    [title |-> title, publisher |-> publisher, link |-> link,
     published_date |-> strftime(DtMinus(Now(k), days, hours))]

Link(ticker, page) == "https://example.com/" \o lower(ticker) \o page

common_news(read) ==
    << Entry("Markets reach record highs as tech stocks surge", "Financial Times",
             "https://example.com/markets-record-high", read + 1, 1, 0),
       Entry("Federal Reserve announces plans to maintain interest rates",
             "Wall Street Journal", "https://example.com/fed-rates", read + 2, 2, 0),
       Entry("Global recession fears grow as manufacturing slows", "Reuters",
             "https://example.com/recession-fears", read + 3, 3, 0),
       Entry("Inflation data shows signs of moderating, analysts say", "Bloomberg",
             "https://example.com/inflation-data", read + 4, 4, 0) >>

ticker_news_AAPL(ticker, read) ==
    << Entry(ticker \o " reports record quarterly earnings, exceeding expectations",
             "CNBC", Link(ticker, "-earnings"), read + 5, 1, 4),
       Entry("New " \o ticker \o " product line launches to strong demand",
             "TechCrunch", Link(ticker, "-product-launch"), read + 6, 2, 6),
       Entry("Analyst downgrades " \o ticker \o " citing supply chain concerns",
             "Seeking Alpha", Link(ticker, "-downgrade"), read + 7, 3, 8) >>

ticker_news_MSFT(ticker, read) ==
    << Entry(ticker \o " cloud services grow 40% year-over-year",
             "CNBC", Link(ticker, "-cloud-growth"), read + 8, 1, 3),
       Entry(ticker \o " announces new AI partnerships with industry leaders",
             "TechCrunch", Link(ticker, "-ai-partnerships"), read + 9, 2, 5),
       Entry("Security vulnerabilities discovered in " \o ticker \o " products",
             "ZDNet", Link(ticker, "-security-issues"), read + 10, 3, 7) >>

ticker_news_GOOGL(ticker, read) ==
    << Entry(ticker \o " ad revenue exceeds projections in quarterly report",
             "CNBC", Link(ticker, "-ad-revenue"), read + 11, 1, 2),
       Entry("Regulatory challenges mount for " \o ticker \o " in European markets",
             "Financial Times", Link(ticker, "-eu-regulation"), read + 12, 2, 4),
       Entry(ticker \o " unveils new search algorithm with enhanced AI capabilities",
             "The Verge", Link(ticker, "-search-ai"), read + 13, 3, 6) >>

ticker_news_AMZN(ticker, read) ==
    << Entry(ticker \o " e-commerce sales surge during holiday season",
             "Reuters", Link(ticker, "-holiday-sales"), read + 14, 1, 1),
       Entry(ticker \o " expands logistics network with new fulfillment centers",
             "Business Insider", Link(ticker, "-logistics-expansion"), read + 15, 2, 3),
       Entry("Labor union pushes for worker rights at " \o ticker \o " warehouses",
             "Washington Post", Link(ticker, "-labor-issues"), read + 16, 3, 5) >>

ticker_news_TSLA(ticker, read) ==
    << Entry(ticker \o " production numbers hit new record in latest quarter",
             "Electrek", Link(ticker, "-production-record"), read + 17, 1, 1),
       Entry(ticker \o " CEO announces new battery technology breakthrough",
             "CleanTechnica", Link(ticker, "-battery-tech"), read + 18, 2, 2),
       Entry("Analysts divided on " \o ticker \o " stock valuation after recent volatility",
             "Barron's", Link(ticker, "-valuation-debate"), read + 19, 3, 3) >>

default_ticker_news(ticker, read) ==
    << Entry(ticker \o " shares move on market trends",
             "Market Watch", Link(ticker, "-shares"), read + 20, 1, 2),
       Entry("Analysts issue new price targets for " \o ticker,
             "Seeking Alpha", Link(ticker, "-price-targets"), read + 21, 2, 5),
       Entry(ticker \o " announces quarterly dividend",
             "Investor's Business Daily", Link(ticker, "-dividend"), read + 22, 3, 8) >>

\* how often one call of get_financial_news reads the clock: once for the
\* cutoff and once for each of the 22 entries
ClockReadings == 23

\* ticker_news.get(ticker, default_ticker_news)
specific_news(ticker, read) ==
    CASE ticker = "AAPL" -> ticker_news_AAPL(ticker, read)
      [] ticker = "MSFT" -> ticker_news_MSFT(ticker, read)
      [] ticker = "GOOGL" -> ticker_news_GOOGL(ticker, read)
      [] ticker = "AMZN" -> ticker_news_AMZN(ticker, read)
      [] ticker = "TSLA" -> ticker_news_TSLA(ticker, read)
      [] OTHER -> default_ticker_news(ticker, read)

\* the entries as the loop finds them: an entry of corrupt has lost the time
\* of its published_date, which then does not parse
stored(all_news) ==
    [i \in DOMAIN all_news |->
        IF all_news[i].title \in corrupt
        THEN [all_news[i] EXCEPT !.published_date = SubSeq(@, 1, 10)]
        ELSE all_news[i]]

\* all_news of get_financial_news: the common entries, then the ticker's
all_news_of(ticker, read) == stored(common_news(read) \o specific_news(ticker, read))

(***************************************************************************)
(* get_financial_news: the loop that filters by date and classifies        *)
(***************************************************************************)
\* mutant: no entry is older than the cutoff
never_older(publish_date, cutoff_date) == FALSE

\* if publish_date < cutoff_date: continue
older_than_cutoff(publish_date, cutoff_date) == DtLess(publish_date, cutoff_date)

\* mutant: the record carries the day of publication only
news_item_dated(item, publish_date, ticker, sentiment_result) ==
    [title |-> item.title, publisher |-> item.publisher, link |-> item.link,
     published_date |-> strftime_date(publish_date), ticker |-> ticker,
     sentiment |-> sentiment_result.sentiment, score |-> sentiment_result.score]

news_item(item, publish_date, ticker, sentiment_result) ==
    [title |-> item.title, publisher |-> item.publisher, link |-> item.link,
     published_date |-> strftime(publish_date), ticker |-> ticker,
     sentiment |-> sentiment_result.sentiment, score |-> sentiment_result.score]

\* the end of a turn that kept the entry: sentiment_result is what the
\* classifier gave for the title; the record is appended, one draw is used
append_item(item, publish_date, ticker, acc, sentiment_result) ==
    IF HasRaised(sentiment_result)
    THEN [raised |-> sentiment_result.raised, drawn |-> acc.drawn]
    ELSE [news |-> Append(acc.news,
              news_item(item, publish_date, ticker, sentiment_result)),
          drawn |-> acc.drawn + 1]

\* the turn once published_date is parsed into publish_date
filter_item(fn, item, cutoff_date, ticker, acc, publish_date) ==
    IF HasRaised(publish_date)
    THEN [raised |-> publish_date.raised, drawn |-> acc.drawn]
    ELSE IF older_than_cutoff(publish_date, cutoff_date) THEN acc
    ELSE IF item.title = "" THEN acc
    ELSE append_item(item, publish_date, ticker, acc,
             Analysis(fn, item.title, DrawAt(acc.drawn)))

\* one turn of the loop, for one entry: acc holds processed_news and the
\* number of draws made so far; the result is acc after the turn, or what
\* the turn raised
process_item(fn, item, cutoff_date, ticker, acc) ==
    filter_item(fn, item, cutoff_date, ticker, acc, strptime(item.published_date))

\* the loop from entry i on; an exception ends it
RECURSIVE process_news(_, _, _, _, _, _)
process_news(fn, all_news, i, cutoff_date, ticker, acc) ==
    IF i > Len(all_news) \/ HasRaised(acc) THEN acc
    ELSE process_news(fn, all_news, i + 1, cutoff_date, ticker,
             process_item(fn, all_news[i], cutoff_date, ticker, acc))

\* return processed_news, or except Exception: return []; read is the number
\* of clock readings made when the function returns, the draws made so far
\* stay made
returned_news(done, read) ==
    [news |-> IF HasRaised(done) THEN <<>> ELSE done.news,
     env |-> [read |-> read, drawn |-> done.drawn]]

\* the body shared by the two servers: the result is what the function
\* returns (news) and what it has consumed (env)
financial_news(fn, ticker, days, env) ==
    LET cutoff_date == DtMinus(Now(env.read + 1), days, 0)
    IN  IF HasRaised(cutoff_date)
        THEN [news |-> <<>>, env |-> [read |-> env.read + 1, drawn |-> env.drawn]]
        ELSE returned_news(
                 process_news(fn, all_news_of(ticker, env.read + 1), 1,
                     cutoff_date, ticker, [news |-> <<>>, drawn |-> env.drawn]),
                 env.read + ClockReadings)

\* run_backend.py, NewsAPI.get_financial_news(ticker, days): the import of
\* backend.app.news_scraper fails, the demo data are used
get_financial_news(ticker, days, env) ==
    financial_news("NewsAPI.analyze_sentiment", ticker, days, env)

\* backend.py, get_financial_news(ticker, days, max_results)
backend_get_financial_news(ticker, days, max_results, env) ==
    LET search_days == Max(1, days)
    IN  financial_news("backend.analyze_sentiment", ticker, search_days, env)

(***************************************************************************)
(* str.split(","), str.strip(), sorted(), slices                           *)
(***************************************************************************)
RECURSIVE split(_, _)
split(s, sep) ==
    LET i == IndexOf(s, sep)
    IN  IF i = 0 THEN <<s>>
        ELSE <<SubSeq(s, 1, i - 1)>> \o split(SubSeq(s, i + 1, Len(s)), sep)

RECURSIVE strip(_)
strip(s) ==
    IF s = "" THEN s
    ELSE IF Char(s, 1) \in WhitespaceSet THEN strip(SubSeq(s, 2, Len(s)))
    ELSE IF Char(s, Len(s)) \in WhitespaceSet THEN strip(SubSeq(s, 1, Len(s) - 1))
    ELSE s

\* mutant: the symbols are trimmed and kept in the case they are written in
ticker_list_as_written(tickers) ==
    [i \in 1..Len(split(tickers, ",")) |-> strip(split(tickers, ",")[i])]

\* [ticker.strip().upper() for ticker in tickers.split(",")]
ticker_list_of(tickers) ==
    LET parts == split(tickers, ",")
    IN  [i \in 1..Len(parts) |-> upper(strip(parts[i]))]

\* list[:n] for n >= 0
Prefix(list, n) == SubSeq(list, 1, Min(n, Len(list)))

\* x goes before y: by the published_date strings, descending when reversed
Before(x, y, reverse) ==
    IF reverse THEN StrLess(y.published_date, x.published_date)
    ELSE StrLess(x.published_date, y.published_date)

\* mutant: the list is returned in the order it was collected
unsorted(list, reverse) == list

\* sorted(list, key=lambda x: x["published_date"], reverse=reverse): stable,
\* each record is put behind the records that do not go after it
RECURSIVE SortedFrom(_, _, _, _)
SortedFrom(list, i, reverse, acc) ==
    IF i > Len(list) THEN acc
    ELSE LET x == list[i]
             p == Cardinality({j \in 1..Len(acc) : ~Before(x, acc[j], reverse)})
         IN  SortedFrom(list, i + 1, reverse,
                 SubSeq(acc, 1, p) \o <<x>> \o SubSeq(acc, p + 1, Len(acc)))

\* mutant: the descending order is the ascending order read backwards
sorted_backwards(list, reverse) ==
    IF reverse
    THEN [i \in 1..Len(list) |-> SortedFrom(list, 1, FALSE, <<>>)[Len(list) + 1 - i]]
    ELSE SortedFrom(list, 1, FALSE, <<>>)

sorted(list, reverse) == SortedFrom(list, 1, reverse, <<>>)

(***************************************************************************)
(* run_backend.py, NewsAPI.get_news and NewsAPI.export_data                *)
(***************************************************************************)
\* mutant: a ticker that yields nothing empties the list
extend_or_reset(all_news, got) ==
    [news |-> IF got.news = <<>> THEN <<>> ELSE all_news \o got.news, env |-> got.env]

\* all_news.extend(news): got is what get_financial_news returned
extend(all_news, got) == [news |-> all_news \o got.news, env |-> got.env]

NoNews == [news |-> <<>>, env |-> [read |-> 0, drawn |-> 0]]

\* the loop over ticker_list: news of all tickers, in the order requested
RECURSIVE collect_news(_, _, _, _)
collect_news(ticker_list, i, days, acc) ==
    IF i > Len(ticker_list) THEN acc
    ELSE collect_news(ticker_list, i + 1, days,
             extend(acc.news, get_financial_news(ticker_list[i], days, acc.env)))

\* the item is within the range: a bound that is None does not count
include_item(item_date, start_dt, end_dt) ==
    /\ ~(start_dt # None /\ DtLess(item_date, start_dt))
    /\ ~(end_dt # None /\ DtLess(end_dt, item_date))

\* start_dt and end_dt before the shift: the value parsed, or None
parsed_bound(date) == IF Truthy(date) THEN strptime_date(date.str) ELSE None

\* end_dt = end_dt.replace(hour=23, minute=59, second=59)
end_of(end_dt) ==
    IF end_dt = None \/ HasRaised(end_dt) THEN end_dt ELSE EndOfDay(end_dt)

\* the item stays: it has a published_date, which parses and is in range
dated_in_range(item_date, start_dt, end_dt) ==
    ~HasRaised(item_date) /\ include_item(item_date, start_dt, end_dt)

kept_item(item, start_dt, end_dt) ==
    /\ item.published_date # ""
    /\ dated_in_range(strptime(item.published_date), start_dt, end_dt)

\* a date that does not parse raises inside the try block and all_news
\* stays as it was
filtered_news(all_news, start_dt, end_dt) ==
    IF HasRaised(start_dt) \/ HasRaised(end_dt) THEN all_news
    ELSE SelectSeq(all_news, LAMBDA item : kept_item(item, start_dt, end_dt))

\* lines 327-371: the filter by start_date and end_date
date_filtered(all_news, start_date, end_date) ==
    filtered_news(all_news, parsed_bound(start_date), end_of(parsed_bound(end_date)))

\* lines 327-371 apply when a start_date or an end_date is given
in_range(all_news, start_date, end_date) ==
    IF Truthy(start_date) \/ Truthy(end_date)
    THEN date_filtered(all_news, start_date, end_date)
    ELSE all_news

\* mutant: max_results is not applied
not_limited(all_news, max_results) == all_news

\* if max_results and max_results > 0: all_news = all_news[:max_results]
limited(all_news, max_results) ==
    IF Truthy(max_results) /\ max_results.int > 0
    THEN Prefix(all_news, max_results.int)
    ELSE all_news

\* what get_news makes of the news collected: filtered, newest first, limited
listed(got, start_date, end_date, max_results) ==
    [news |-> limited(sorted(in_range(got.news, start_date, end_date), TRUE),
                  max_results),
     env |-> got.env]

\* get_news called when the request has consumed env: [news, env]
get_news_from(tickers, days, start_date, end_date, max_results, env) ==
    listed(collect_news(ticker_list_of(tickers), 1, days, [news |-> <<>>, env |-> env]),
           start_date, end_date, max_results)

get_news(tickers, days, start_date, end_date, max_results) ==
    get_news_from(tickers, days, start_date, end_date, max_results, NoNews.env).news

export_data(tickers, days, start_date, end_date, max_results) ==
    sorted(get_news(tickers, days, start_date, end_date, max_results), FALSE)

(***************************************************************************)
(* backend.py, GET /api/news and GET /api/export                           *)
(***************************************************************************)
RECURSIVE backend_collect_news(_, _, _, _, _)
backend_collect_news(ticker_list, i, days, max_results, acc) ==
    IF i > Len(ticker_list) THEN acc
    ELSE backend_collect_news(ticker_list, i + 1, days, max_results,
             extend(acc.news,
                 backend_get_financial_news(ticker_list[i], days, max_results, acc.env)))

\* the defaults of the query parameters of /api/news and /api/export
NewsDefaultLimit == 100
ExportDefaultLimit == 500

\* max(1, max_results) of the query parameter, default when it is absent
results_limit_of(max_results, default) ==
    IF max_results = None THEN default ELSE Max(1, max_results.int)

\* if len(list) > n: list = list[:n]
truncated(list, n) == IF Len(list) > n THEN Prefix(list, n) ELSE list

backend_get_news(tickers, days, max_results) ==
    truncated(
        sorted(backend_collect_news(ticker_list_of(tickers), 1, Max(1, days),
                   results_limit_of(max_results, NewsDefaultLimit), NoNews).news,
               TRUE),
        results_limit_of(max_results, NewsDefaultLimit) * 2)

backend_export_data(tickers, days, max_results) ==
    truncated(
        sorted(backend_collect_news(ticker_list_of(tickers), 1, Max(1, days),
                   results_limit_of(max_results, ExportDefaultLimit)
                       \div Len(ticker_list_of(tickers)),
                   NoNews).news,
               FALSE),
        results_limit_of(max_results, ExportDefaultLimit))
NoCall == [fn |-> "none"]
NoRequest == [tickers |-> ""]
NoResponse == [fn |-> "none"]
StoppedClock == [start |-> datetime(0, 0, 0), step |-> 0]

(***************************************************************************)
(* Inputs of the classifier.                                               *)
(***************************************************************************)
\* a keyword may be repeated up to this many times in a text
MaxPositive == 6
MaxNegative == 5
\* how many of the largest values of random.random() are drawn
NearOne == 2

RECURSIVE Repeat(_, _)
Repeat(s, k) == IF k = 0 THEN "" ELSE s \o Repeat(s, k - 1)

\* what surrounds the repeated keywords: <<before, after>>
Decorations ==
    {<<"", "">>,
     <<"Shares plunge after ", "earnings miss">>,
     <<"STOCK CRASHES despite ", "">>,
     <<"Quarterly revenue missed; ", "outlook">>,
     <<"Growing, unprofitable: ", "record_highs">>,
     <<"Company posts Profit, ", "issues warning.">>}

Texts ==
    {[str |-> d[1] \o Repeat("surge ", p) \o Repeat("FALL, ", n) \o d[2]] :
        d \in Decorations, p \in 0..MaxPositive, n \in 0..MaxNegative}

\* a JSON number in the body of POST /api/analyze_text
NonStrings == {[int |-> 5]}

Draws ==
    {[a |-> 0, b |-> 0], [a |-> 2 ^ (RandomHighBits - 1), b |-> 0]}
    \cup {[a |-> 2 ^ RandomHighBits - 1, b |-> 2 ^ RandomLowBits - i] : i \in 1..NearOne}

Classifiers == {"NewsAPI.analyze_sentiment", "backend.analyze_sentiment"}

(***************************************************************************)
(* The classifier applied to a text, once and then once more.              *)
(***************************************************************************)
InitClassify ==
    /\ text \in Texts \cup NonStrings
    /\ first = NoCall
    /\ second = NoCall
    /\ request = NoRequest
    /\ clock = StoppedClock
    /\ stream = <<>>
    /\ fault = {}
    /\ corrupt = {}
    /\ NoDashboard
    /\ response = NoResponse

Analyze(fn, draw) ==
    /\ first = NoCall
    /\ first' = [fn |-> fn, draw |-> draw, out |-> Classify(fn, text, draw)]
    /\ UNCHANGED <<text, second, request, clock, stream, fault, corrupt, session_state,
                   cache, widgets, response>>

AnalyzeAgain(fn, draw) ==
    /\ first # NoCall
    /\ second = NoCall
    /\ second' = [fn |-> fn, draw |-> draw, out |-> Classify(fn, text, draw)]
    /\ UNCHANGED <<text, first, request, clock, stream, fault, corrupt, session_state,
                   cache, widgets, response>>

NextClassify ==
    \/ \E fn \in Classifiers, draw \in Draws : Analyze(fn, draw)
    \/ \E fn \in Classifiers, draw \in Draws : AnalyzeAgain(fn, draw)

SpecClassify == InitClassify /\ [][NextClassify]_vars


(***************************************************************************)
(* Inputs of a news request.                                               *)
(***************************************************************************)
\* the longest lookback asked for, in days
MaxDays == 4

\* the symbols asked for, and how the client writes them
Spell(symbol, style) ==
    IF style = "loose" THEN " " \o lower(symbol) \o " " ELSE symbol

RECURSIVE Join(_, _)
Join(symbols, style) ==
    IF Len(symbols) = 1 THEN Spell(symbols[1], style)
    ELSE Spell(symbols[1], style) \o "," \o Join(Tail(symbols), style)

TickerInputs ==
    {[symbols |-> <<"AAPL">>, style |-> "plain"],
     [symbols |-> <<"TSLA", "AAPL">>, style |-> "loose"],
     [symbols |-> <<"XYZ", "MSFT">>, style |-> "plain"]}

\* days: int(params.get("days", 7)), any integer the client sends
Lookbacks == (-1..MaxDays) \cup {800000}

\* a date of the custom range, as run_frontend.py sends it: the day meant,
\* ago days before the day the request starts, and its text
DateInput(today, ago) ==
    [day |-> <<today - ago>>, text |-> PyStr(strftime_date(datetime(today - ago, 0, 0)))]
Absent == [day |-> <<>>, text |-> None]
\* a text that is not a date
Malformed == [day |-> <<>>, text |-> PyStr("03/11/2026")]

RangeInputs(today) ==
    {[start |-> Absent, end |-> Absent],
     [start |-> DateInput(today, 3), end |-> Absent],
     [start |-> Absent, end |-> DateInput(today, 2)],
     [start |-> DateInput(today, 4), end |-> DateInput(today, 0)],
     [start |-> DateInput(today, 2), end |-> DateInput(today, 1)],
     [start |-> DateInput(today, 1), end |-> DateInput(today, 3)],
     [start |-> DateInput(today, 4), end |-> Malformed],
     [start |-> DateInput(today, 2), end |-> Malformed]}

MaxResultsInputs == {None, PyInt(3)}

\* the clock when the request starts, and what passes between two readings
Clocks ==
    {[start |-> datetime(DaysFromCivil(2026, 11, 3), 9 * 3600 + 15 * 60 + 30, 500000),
      step |-> 0],
     [start |-> datetime(DaysFromCivil(2024, 3, 2), 23 * 3600 + 59 * 60 + 59, 999999),
      step |-> 1],
     [start |-> datetime(DaysFromCivil(2027, 1, 1), 2 * 3600, 0),
      step |-> 250000]}

Streams ==
    {<< [a |-> 0, b |-> 0], [a |-> 2 ^ (RandomHighBits - 1), b |-> 0],
        [a |-> 2 ^ RandomHighBits - 1, b |-> 2 ^ RandomLowBits - 1] >>,
     << [a |-> 2 ^ RandomHighBits - 1, b |-> 2 ^ RandomLowBits - 1], [a |-> 1, b |-> 1] >>}

ServeStream == << [a |-> 2 ^ (RandomHighBits - 1), b |-> 0], [a |-> 1, b |-> 1] >>

Requests(today) ==
    {[symbols |-> t.symbols, tickers |-> Join(t.symbols, t.style), days |-> d,
      start |-> r.start.day, end |-> r.end.day,
      start_date |-> r.start.text, end_date |-> r.end.text, max_results |-> m] :
        t \in TickerInputs, d \in Lookbacks, r \in RangeInputs(today),
        m \in MaxResultsInputs}

(***************************************************************************)
(* One request served by one of the two servers.                           *)
(***************************************************************************)
Init ==
    /\ text = None
    /\ first = NoCall
    /\ second = NoCall
    /\ clock \in Clocks
    /\ request \in Requests(clock.start.day)
    /\ stream \in Streams
    /\ fault = {}
    /\ corrupt = {}
    /\ NoDashboard
    /\ response = NoResponse

Idle ==
    UNCHANGED <<text, first, second, request, clock, stream, fault, corrupt, session_state,
                cache, widgets>>

\* run_backend.py, GET /api/news
GetNews ==
    /\ response = NoResponse
    /\ request # NoRequest
    /\ response' = [fn |-> "NewsAPI.get_news",
                    news |-> get_news(request.tickers, request.days, request.start_date,
                                 request.end_date, request.max_results)]
    /\ Idle

\* run_backend.py, GET /api/export
ExportData ==
    /\ response = NoResponse
    /\ request # NoRequest
    /\ response' = [fn |-> "NewsAPI.export_data",
                    news |-> export_data(request.tickers, request.days,
                                 request.start_date, request.end_date,
                                 request.max_results)]
    /\ Idle

\* backend.py, GET /api/news: start_date and end_date are not parameters
BackendGetNews ==
    /\ response = NoResponse
    /\ request # NoRequest
    /\ response' = [fn |-> "backend.get_news",
                    news |-> backend_get_news(request.tickers, request.days,
                                 request.max_results)]
    /\ Idle

\* backend.py, GET /api/export
BackendExportData ==
    /\ response = NoResponse
    /\ request # NoRequest
    /\ response' = [fn |-> "backend.export_data",
                    news |-> backend_export_data(request.tickers, request.days,
                                 request.max_results)]
    /\ Idle

Next == GetNews \/ ExportData \/ BackendGetNews \/ BackendExportData

Spec == Init /\ [][Next]_vars

(***************************************************************************)
(* One request during which the analysis raises on one headline, as        *)
(* tests/test_sentiment.py makes it raise.                                 *)
(***************************************************************************)
\* the titles of the corpus entries of the symbols asked for
TitlesOf(symbols) ==
    {(common_news(0) \o specific_news(symbols[j], 0))[i].title :
        j \in 1..Len(symbols), i \in 1..7}

FaultRequests ==
    {[symbols |-> t.symbols, tickers |-> Join(t.symbols, t.style), days |-> d,
      start |-> Absent.day, end |-> Absent.day,
      start_date |-> Absent.text, end_date |-> Absent.text, max_results |-> None] :
        t \in TickerInputs, d \in {2, MaxDays}}

InitFault ==
    /\ text = None
    /\ first = NoCall
    /\ second = NoCall
    /\ clock \in Clocks
    /\ request \in FaultRequests
    /\ stream \in Streams
    /\ corrupt = {}
    /\ fault \in {{title} : title \in TitlesOf(request.symbols)}
    /\ NoDashboard
    /\ response = NoResponse

SpecFault == InitFault /\ [][Next]_vars

(***************************************************************************)
(* One request during which the processing of a ticker raises: the         *)
(* analysis raises on one headline, or one corpus entry has a              *)
(* published_date that strptime does not parse.                            *)
(***************************************************************************)
Failures(symbols) ==
    {[fault |-> {title}, corrupt |-> {}] : title \in TitlesOf(symbols)}
        \cup {[fault |-> {}, corrupt |-> {title}] : title \in TitlesOf(symbols)}

InitFailure ==
    /\ text = None
    /\ first = NoCall
    /\ second = NoCall
    /\ clock \in Clocks
    /\ request \in FaultRequests
    /\ stream = ServeStream
    /\ \E failure \in Failures(request.symbols) :
           corrupt = failure.corrupt /\ fault = failure.fault
    /\ NoDashboard
    /\ response = NoResponse

SpecFailure == InitFailure /\ [][Next]_vars
(***************************************************************************)
(* What the claims speak of, stated without the classifier's own steps.    *)
(***************************************************************************)
Calls == {c \in {first, second} : c # NoCall}
NewsAPICalls == {c \in Calls : c.fn = "NewsAPI.analyze_sentiment"}
Returns(c) == ~HasRaised(c.out)

\* the lower-cased text contains a strong-negative phrase as a substring
ContainsStrongPhrase(s) ==
    LET t == lower(s)
    IN  \E phrase \in strong_negative_phrases : Contains(t, phrase)

\* the occurrences of keywords in the lower-cased text as whole words: a
\* keyword starting at i with no word character before it and none after it
WholeWordCount(s, keywords) ==
    LET t == lower(s)
        free(i) == i < 1 \/ i > Len(t) \/ ~IsWordChar(Char(t, i))
    IN  Cardinality({i \in 1..Len(t) :
            \E kw \in keywords :
                /\ i + Len(kw) - 1 <= Len(t)
                /\ SubSeq(t, i, i + Len(kw) - 1) = kw
                /\ free(i - 1)
                /\ free(i + Len(kw))})

F_1_0 == FFromInt(1)
F_0_9 == FLiteral(9, 10)
\* lo <= score < hi
InHalfOpen(score, lo, hi) == FLessEq(lo, score) /\ FLess(score, hi)
\* lo <= score <= hi
InClosed(score, lo, hi) == FLessEq(lo, score) /\ FLessEq(score, hi)

\* C1: NewsAPI.analyze_sentiment returns "negative" for every text whose
\* lower-cased form contains a strong-negative phrase, however many positive
\* keywords the text holds.
C1_StrongPhraseIsNegative ==
    \A c \in NewsAPICalls :
        (IsStr(text) /\ ContainsStrongPhrase(text.str)) => c.out.sentiment = "negative"

\* a text with a strong-negative phrase whose keywords alone are all positive
C1_Witness ==
    /\ first # NoCall
    /\ first.fn = "NewsAPI.analyze_sentiment"
    /\ IsStr(text)
    /\ ContainsStrongPhrase(text.str)
    /\ WholeWordCount(text.str, positive_keywords) >= 3
    /\ WholeWordCount(text.str, negative_keywords) = 0
    /\ first.out.sentiment = "negative"

\* C2: without a strong-negative phrase, with p and n the whole-word
\* occurrences of positive and negative keywords, the label is positive iff
\* 5p > 6n, negative iff 6n > 5p and neutral iff 5p = 6n.
C2_LabelByWeightedCounts ==
    \A c \in NewsAPICalls :
        (IsStr(text) /\ ~ContainsStrongPhrase(text.str)) =>
            LET p == WholeWordCount(text.str, positive_keywords)
                n == WholeWordCount(text.str, negative_keywords)
            IN  /\ c.out.sentiment = "positive" <=> 5 * p > 6 * n
                /\ c.out.sentiment = "negative" <=> 6 * n > 5 * p
                /\ c.out.sentiment = "neutral" <=> 5 * p = 6 * n

\* six positive and five negative keywords: the one tie with keywords present
C2_Witness ==
    /\ first # NoCall
    /\ first.fn = "NewsAPI.analyze_sentiment"
    /\ IsStr(text)
    /\ ~ContainsStrongPhrase(text.str)
    /\ WholeWordCount(text.str, positive_keywords) = 6
    /\ WholeWordCount(text.str, negative_keywords) = 5
    /\ first.out.sentiment = "neutral"

\* the branch a call took: the phrase branch exists in NewsAPI only
TookPhraseBranch(c) ==
    c.fn = "NewsAPI.analyze_sentiment" /\ ContainsStrongPhrase(text.str)

C4_NeutralWithoutKeywords ==
    \A c \in NewsAPICalls :
        IsStr(text) =>
            /\ Returns(c)
            /\ (/\ ~ContainsStrongPhrase(text.str)
                /\ WholeWordCount(text.str, positive_keywords) = 0
                /\ WholeWordCount(text.str, negative_keywords) = 0)
               => c.out.sentiment = "neutral"

\* the empty string has been classified
C4_Witness ==
    /\ first # NoCall
    /\ first.fn = "NewsAPI.analyze_sentiment"
    /\ text = [str |-> ""]
    /\ Returns(first)
    /\ first.out.sentiment = "neutral"

\* C5: two calls of the same classifier on the same text return the same
\* label, whatever the random source gives to each.
C5_LabelDeterministic ==
    (first # NoCall /\ second # NoCall /\ first.fn = second.fn
        /\ Returns(first) /\ Returns(second))
    => first.out.sentiment = second.out.sentiment

\* two calls on one text with different draws and different scores
C5_Witness ==
    /\ first # NoCall
    /\ second # NoCall
    /\ first.fn = second.fn
    /\ Returns(first)
    /\ Returns(second)
    /\ first.draw # second.draw
    /\ first.out.score # second.out.score
    /\ first.out.sentiment = second.out.sentiment

\* C7: backend.analyze_sentiment and NewsAPI.analyze_sentiment return the
\* same label for every text.
C7_ClassifiersAgree ==
    (first # NoCall /\ second # NoCall /\ first.fn # second.fn
        /\ Returns(first) /\ Returns(second))
    => first.out.sentiment = second.out.sentiment

(***************************************************************************)
(* What the claims about the news requests speak of.                       *)
(***************************************************************************)
\* the moment the published_date of a record or corpus entry denotes
Published(r) == strptime(r.published_date)

Listing == response.fn \in {"NewsAPI.get_news", "backend.get_news"}
Export == response.fn \in {"NewsAPI.export_data", "backend.export_data"}

\* the symbols the client asked for, upper-cased and trimmed
Requested == {request.symbols[j] : j \in 1..Len(request.symbols)}

\* start_date and end_date are each absent or a valid date
RangeIsValid ==
    /\ request.start_date = None \/ request.start # <<>>
    /\ request.end_date = None \/ request.end # <<>>

\* 00:00:00 of the start date and 23:59:59 of the end date
RangeStart == datetime(request.start[1], 0, 0)
RangeEnd == datetime(request.end[1], SecondsPerDay - 1, 0)

\* the corpus entries of the j-th symbol asked for, stamped as that ticker's
\* turn stamps them when no turn fails
EntriesOf(j) ==
    LET entries == all_news_of(request.symbols[j], (j - 1) * ClockReadings + 1)
    IN  {entries[i] : i \in 1..Len(entries)}

\* the response holds the record of entry e for the j-th symbol
Holds(e, j) ==
    \E i \in 1..Len(response.news) :
        /\ response.news[i].title = e.title
        /\ response.news[i].ticker = request.symbols[j]
        /\ response.news[i].published_date = e.published_date

\* C6: a failure raised inside classification never propagates and never
\* removes records: when the analysis raises for a headline, the record of
\* that headline is returned with sentiment "neutral", score 0.5 and an error
\* marker, and the request still returns all other records (every entry not
\* older than the lookback cutoff of its ticker's turn).
C6_ClassifierFailureIsSubstituted ==
    response # NoResponse =>
        LET days == IF response.fn \in {"backend.get_news", "backend.export_data"}
                    THEN Max(1, request.days) ELSE request.days
        IN  \A j \in 1..Len(request.symbols) :
                \A e \in EntriesOf(j) :
                    ~DtLess(Published(e), DtMinus(Now((j - 1) * ClockReadings + 1), days, 0))
                    => \E i \in 1..Len(response.news) :
                          LET r == response.news[i]
                          IN  /\ r.title = e.title
                              /\ r.ticker = request.symbols[j]
                              /\ e.title \in fault =>
                                    /\ r.sentiment = "neutral"
                                    /\ r.score = F_0_5
                                    /\ "error" \in DOMAIN r

\* C8: every record NewsAPI.get_news returns, for start_date and end_date
\* absent or valid, is published no earlier than days before the request
\* started, no earlier than 00:00:00 of start_date and no later than 23:59:59
\* of end_date when these are given, and carries one of the requested symbols.
C8_WithinLookbackRangeAndTickers ==
    (response.fn = "NewsAPI.get_news" /\ RangeIsValid) =>
        \A i \in 1..Len(response.news) :
            LET r == response.news[i]
                t == Published(r)
            IN  /\ ~HasRaised(t)
                /\ DtLessEq(DtMinus(clock.start, request.days, 0), t)
                /\ request.start # <<>> => DtLessEq(RangeStart, t)
                /\ request.end # <<>> => DtLessEq(t, RangeEnd)
                /\ r.ticker \in Requested

\* two tickers written in lower case with spaces, a lookback and a range that
\* both cut: records of both come back, and fewer than the corpus holds
C8_Witness ==
    /\ response.fn = "NewsAPI.get_news"
    /\ RangeIsValid
    /\ request.symbols = <<"TSLA", "AAPL">>
    /\ request.tickers # "TSLA,AAPL"
    /\ request.days = 3
    /\ request.start # <<>>
    /\ request.end # <<>>
    /\ \E i, k \in 1..Len(response.news) :
          response.news[i].ticker = "TSLA" /\ response.news[k].ticker = "AAPL"
    /\ \E j \in 1..2 : \E e \in EntriesOf(j) : ~Holds(e, j)

\* C9: when start_date and end_date are both given, NewsAPI.get_news returns,
\* before truncation, every corpus headline of the requested tickers that is
\* published within [start_date 00:00:00, end_date 23:59:59], whatever days is.
C9_RangeOverridesDays ==
    (/\ response.fn = "NewsAPI.get_news"
     /\ request.start # <<>>
     /\ request.end # <<>>
     /\ request.max_results = None) =>
        \A j \in 1..Len(request.symbols) :
            \A e \in EntriesOf(j) :
                (DtLessEq(RangeStart, Published(e)) /\ DtLessEq(Published(e), RangeEnd))
                => Holds(e, j)

\* C10: the list returned for listing is non-increasing in published_date
\* and the list returned for export is non-decreasing, in both servers.
C10_OrderedByPublishedDate ==
    response # NoResponse =>
        \A i \in 1..(Len(response.news) - 1) :
            /\ Listing => DtLessEq(Published(response.news[i + 1]), Published(response.news[i]))
            /\ Export => DtLessEq(Published(response.news[i]), Published(response.news[i + 1]))

\* an export of two tickers' records, the first older than the last
C10_Witness ==
    /\ response.fn = "NewsAPI.export_data"
    /\ Len(response.news) >= 8
    /\ \E i, k \in 1..Len(response.news) : response.news[i].ticker # response.news[k].ticker
    /\ DtLess(Published(response.news[1]), Published(response.news[Len(response.news)]))


(***************************************************************************)
(* run_backend.py, FinancialNewsHandler._parse_query_params                *)
(***************************************************************************)
\* s.split(sep, 1): <<s>> when sep is not in s
split_once(s, sep) ==
    IF IndexOf(s, sep) = 0 THEN <<s>>
    ELSE <<SubSeq(s, 1, IndexOf(s, sep) - 1), SubSeq(s, IndexOf(s, sep) + 1, Len(s))>>

HexDigits == "0123456789ABCDEF"
IsHex(c) == IndexOf(HexDigits, upper(c)) # 0
HexValue(c) == IndexOf(HexDigits, upper(c)) - 1

\* the characters of codes 32..126 in order; the three written ? here (codes
\* 34, 92 and 96) are not decoded
AsciiFrom32 ==
    " !?#$%&'()*+,-./0123456789:;<=>?@ABCDEFGHIJKLMNOPQRSTUVWXYZ[?]^_?abcdefghijklmnopqrstuvwxyz{|}~"
Decodable == (32..126) \ {34, 92, 96}

\* urllib.parse.unquote_plus(s), for escapes of the characters of Decodable:
\* + is a space, %XX the character of code XX
RECURSIVE unquote_plus(_)
unquote_plus(s) ==
    IF s = "" THEN ""
    ELSE IF Char(s, 1) = "+" THEN " " \o unquote_plus(SubSeq(s, 2, Len(s)))
    ELSE IF /\ Char(s, 1) = "%"
            /\ Len(s) >= 3
            /\ IsHex(Char(s, 2))
            /\ IsHex(Char(s, 3))
            /\ (16 * HexValue(Char(s, 2)) + HexValue(Char(s, 3))) \in Decodable
    THEN Char(AsciiFrom32, 16 * HexValue(Char(s, 2)) + HexValue(Char(s, 3)) - 31)
         \o unquote_plus(SubSeq(s, 4, Len(s)))
    ELSE Char(s, 1) \o unquote_plus(SubSeq(s, 2, Len(s)))

\* params[key] = value: a dict is a function from its keys
SetItem(dict, key, value) ==
    [k \in DOMAIN dict \cup {key} |-> IF k = key THEN value ELSE dict[k]]
EmptyDict == [k \in {} |-> ""]

\* one turn of the loop over query_string.split("&")
with_param(params, param) ==
    IF IndexOf(param, "=") = 0 THEN params
    ELSE SetItem(params, split_once(param, "=")[1],
             unquote_plus(split_once(param, "=")[2]))

RECURSIVE parse_params(_, _, _)
parse_params(list, i, params) ==
    IF i > Len(list) THEN params
    ELSE parse_params(list, i + 1, with_param(params, list[i]))

\* _parse_query_params(): [path, params]
parse_query_params(raw) ==
    IF IndexOf(raw, "?") = 0 THEN [path |-> raw, params |-> EmptyDict]
    ELSE [path |-> split_once(raw, "?")[1],
          params |-> parse_params(split(split_once(raw, "?")[2], "&"), 1, EmptyDict)]

(***************************************************************************)
(* int(s) of a str: whitespace around, a sign, decimal digits              *)
(***************************************************************************)
unsigned_int(s, sign) ==
    IF s # "" /\ DigitEnd(s, 1) = Len(s) THEN PyInt(sign * ToInt(s))
    ELSE Raised("ValueError")

stripped_int(s) ==
    IF s # "" /\ Char(s, 1) = "-" THEN unsigned_int(SubSeq(s, 2, Len(s)), -1)
    ELSE IF s # "" /\ Char(s, 1) = "+" THEN unsigned_int(SubSeq(s, 2, Len(s)), 1)
    ELSE unsigned_int(s, 1)

py_int(s) == stripped_int(strip(s))

(***************************************************************************)
(* get_sentiment_summary of the two servers                                *)
(***************************************************************************)
\* sum(1 for item in news if item["sentiment"] == label)
count_of(news, label) == Cardinality({i \in 1..Len(news) : news[i].sentiment = label})

\* mutant: a negative item counts as nothing
sentiment_values_unsigned(label) == IF label = "positive" THEN 1 ELSE 0

\* sentiment_values[label]
sentiment_values(label) ==
    CASE label = "positive" -> 1
      [] label = "neutral" -> 0
      [] label = "negative" -> -1

\* sum(sentiment_values[item["sentiment"]] for item in news), from item i on
RECURSIVE sum_values(_, _)
sum_values(news, i) ==
    IF i > Len(news) THEN 0
    ELSE sentiment_values(news[i].sentiment) + sum_values(news, i + 1)

\* a / b of two ints, b > 0: the float nearest to the quotient, with its sign
true_div(a, b) ==
    [float |-> FLiteral(IF a < 0 THEN -a ELSE a, b), negative |-> a < 0]

\* the entry of summary for a ticker whose news are news
summary_of(news) ==
    IF news = <<>>
    THEN [total_news |-> 0, positive |-> 0, negative |-> 0, neutral |-> 0,
          avg_sentiment_score |-> PyInt(0)]
    ELSE [total_news |-> Len(news),
          positive |-> count_of(news, "positive"),
          negative |-> count_of(news, "negative"),
          neutral |-> count_of(news, "neutral"),
          avg_sentiment_score |-> true_div(sum_values(news, 1), Len(news))]

\* mutant: a ticker without news gets no entry
summarized_with_news(summary, ticker, got) ==
    [summary |-> IF got.news = <<>> THEN summary
                 ELSE SetItem(summary, ticker, summary_of(got.news)),
     env |-> got.env]

\* summary[ticker] = ... for the news got for the ticker
summarized(summary, ticker, got) ==
    [summary |-> SetItem(summary, ticker, summary_of(got.news)), env |-> got.env]

NoSummary == [summary |-> EmptyDict, env |-> NoNews.env]

\* run_backend.py lines 392-396: the news of one ticker
summary_news(ticker, days, start_date, end_date, max_results, env) ==
    IF Truthy(start_date) \/ Truthy(end_date)
    THEN get_news_from(ticker, days, start_date, end_date, max_results, env)
    ELSE get_financial_news(ticker, days, env)

RECURSIVE summary_loop(_, _, _, _, _, _, _)
summary_loop(ticker_list, i, days, start_date, end_date, max_results, acc) ==
    IF i > Len(ticker_list) THEN acc
    ELSE summary_loop(ticker_list, i + 1, days, start_date, end_date, max_results,
             summarized(acc.summary, ticker_list[i],
                 summary_news(ticker_list[i], days, start_date, end_date,
                     max_results, acc.env)))

\* run_backend.py, NewsAPI.get_sentiment_summary
get_sentiment_summary(tickers, days, start_date, end_date, max_results) ==
    summary_loop(ticker_list_of(tickers), 1, days, start_date, end_date,
        max_results, NoSummary).summary

RECURSIVE backend_summary_loop(_, _, _, _, _)
backend_summary_loop(ticker_list, i, days, max_results, acc) ==
    IF i > Len(ticker_list) THEN acc
    ELSE backend_summary_loop(ticker_list, i + 1, days, max_results,
             summarized(acc.summary, ticker_list[i],
                 backend_get_financial_news(ticker_list[i], days, max_results,
                     acc.env)))

\* backend.py, GET /api/sentiment_summary
backend_get_sentiment_summary(tickers, days, max_results) ==
    backend_summary_loop(ticker_list_of(tickers), 1, Max(1, days),
        results_limit_of(max_results, NewsDefaultLimit), NoSummary).summary

(***************************************************************************)
(* run_backend.py, FinancialNewsHandler.do_GET.  A response is             *)
(* [fn, status, called, ...]: called lists the methods of NewsAPI that the *)
(* handler invoked; a handler that raises answers nothing.                 *)
(***************************************************************************)
Handler == "FinancialNewsHandler.do_GET"

\* _set_headers() and wfile.write(json.dumps(value).encode())
sent(field, value, called) ==
    SetItem([fn |-> Handler, status |-> 200, called |-> called], field, value)

\* send_error(code, message)
send_error(fn, code, message) ==
    [fn |-> fn, status |-> code, message |-> message, called |-> <<>>]

\* an exception that leaves the handler
unhandled(fn, raised) == [fn |-> fn, raised |-> raised.raised, called |-> <<>>]

\* params.get(key): the str, or None
get_param(params, key) == IF key \in DOMAIN params THEN PyStr(params[key]) ELSE None

\* int(params.get("days", default))
days_param(params, default) ==
    IF "days" \in DOMAIN params THEN py_int(params["days"]) ELSE PyInt(default)

\* max_results = int(max_results), None when that raises ValueError
converted(max_results, as_int) == IF HasRaised(as_int) THEN None ELSE as_int

\* lines 480 and 485-489: an absent or empty max_results stays as it is
max_results_param(params) ==
    IF Truthy(get_param(params, "max_results"))
    THEN converted(get_param(params, "max_results"), py_int(params["max_results"]))
    ELSE get_param(params, "max_results")

\* /api/news with tickers given
news_endpoint(params, days) ==
    IF HasRaised(days) THEN unhandled(Handler, days)
    ELSE sent("news",
             get_news(params["tickers"], days.int, get_param(params, "start_date"),
                 get_param(params, "end_date"), max_results_param(params)),
             <<"get_news">>)

\* /api/sentiment_summary with tickers given
summary_endpoint(params, days) ==
    IF HasRaised(days) THEN unhandled(Handler, days)
    ELSE sent("summary",
             get_sentiment_summary(params["tickers"], days.int,
                 get_param(params, "start_date"), get_param(params, "end_date"),
                 max_results_param(params)),
             <<"get_sentiment_summary">>)

\* /api/export with tickers given
export_endpoint(params, days) ==
    IF HasRaised(days) THEN unhandled(Handler, days)
    ELSE sent("news",
             export_data(params["tickers"], days.int, get_param(params, "start_date"),
                 get_param(params, "end_date"), max_results_param(params)),
             <<"export_data">>)

NewsDefaultDays == 7
ExportDefaultDays == 30

routed(path, params) ==
    IF path = "/api/news"
    THEN (IF "tickers" \in DOMAIN params
          THEN news_endpoint(params, days_param(params, NewsDefaultDays))
          ELSE send_error(Handler, 400, "Missing 'tickers' parameter"))
    ELSE IF path = "/api/sentiment_summary"
    THEN (IF "tickers" \in DOMAIN params
          THEN summary_endpoint(params, days_param(params, NewsDefaultDays))
          ELSE send_error(Handler, 400, "Missing 'tickers' parameter"))
    ELSE IF path = "/api/export"
    THEN (IF "tickers" \in DOMAIN params
          THEN export_endpoint(params, days_param(params, ExportDefaultDays))
          ELSE send_error(Handler, 400, "Missing 'tickers' parameter"))
    ELSE IF path = "/health"
    THEN sent("health", [status |-> "healthy"], <<>>)
    ELSE send_error(Handler, 404, "Not Found")

parsed_route(parsed) == routed(parsed.path, parsed.params)

do_GET(raw) == parsed_route(parse_query_params(raw))

(***************************************************************************)
(* Requests as the client writes them: the path with its query string.     *)
(***************************************************************************)
Paths == {"/api/news", "/api/sentiment_summary", "/api/export", "/health", "/api/nothing"}

\* str(n) of an int n >= 0
DecimalText(n) == IF n < 10 THEN Char(Digits, n + 1) ELSE Zfill(n, 1)

\* the parameter tickers: absent, empty, one symbol, two symbols written in
\* lower case with spaces and an escaped comma, three of which two are the same
TickerQueries ==
    {"", "tickers=", "tickers=AAPL", "tickers=+tsla+%2CAAPL", "tickers=aapl,XYZ,AAPL"}

DaysQueries == {"", "days=0", "days=2", "days=" \o DecimalText(MaxDays), "days=abc"}

MaxResultsQueries ==
    {"", "max_results=0", "max_results=-2", "max_results=2", "max_results=abc"}

\* no range, or the range from two days before the day of the request to it
RangeQueries(today) ==
    {"", "start_date=" \o strftime_date(datetime(today - 2, 0, 0))
             \o "&end_date=" \o strftime_date(datetime(today, 0, 0))}

\* the parameters written after the path, those left out skipped
RECURSIVE JoinQuery(_, _)
JoinQuery(parts, sep) ==
    IF parts = <<>> THEN ""
    ELSE IF Head(parts) = "" THEN JoinQuery(Tail(parts), sep)
    ELSE sep \o Head(parts) \o JoinQuery(Tail(parts), "&")

RawRequests(today) ==
    {[raw |-> p \o JoinQuery(<<t, d, m, r>>, "?")] :
        p \in Paths, t \in TickerQueries, d \in DaysQueries, m \in MaxResultsQueries,
        r \in RangeQueries(today)}


InitServe ==
    /\ text = None
    /\ first = NoCall
    /\ second = NoCall
    /\ clock \in Clocks
    /\ request \in RawRequests(clock.start.day)
    /\ stream = ServeStream
    /\ fault = {}
    /\ corrupt = {}
    /\ NoDashboard
    /\ response = NoResponse

\* run_backend.py: a GET request served by FinancialNewsHandler
DoGet ==
    /\ response = NoResponse
    /\ "raw" \in DOMAIN request
    /\ response' = do_GET(request.raw)
    /\ Idle

\* what FastAPI hands to get_sentiment_summary: tickers is required, days and
\* max_results are ints when given
backend_accepts(params) ==
    /\ "tickers" \in DOMAIN params
    /\ ~HasRaised(days_param(params, NewsDefaultDays))
    /\ "max_results" \in DOMAIN params => ~HasRaised(py_int(params["max_results"]))

backend_max_results(params) ==
    IF "max_results" \in DOMAIN params THEN py_int(params["max_results"]) ELSE None

backend_summary_response(params) ==
    [fn |-> "backend.get_sentiment_summary", status |-> 200,
     called |-> <<"get_financial_news">>,
     summary |-> backend_get_sentiment_summary(params["tickers"],
                     days_param(params, NewsDefaultDays).int,
                     backend_max_results(params))]

\* backend.py: GET /api/sentiment_summary served by the FastAPI application
BackendGetSentimentSummary ==
    /\ response = NoResponse
    /\ "raw" \in DOMAIN request
    /\ parse_query_params(request.raw).path = "/api/sentiment_summary"
    /\ backend_accepts(parse_query_params(request.raw).params)
    /\ response' = backend_summary_response(parse_query_params(request.raw).params)
    /\ Idle

NextServe == DoGet \/ BackendGetSentimentSummary

SpecServe == InitServe /\ [][NextServe]_vars

(***************************************************************************)
(* POST /api/analyze_text of the two servers.  body is what json.loads     *)
(* gave: a dict from keys to Python values.                                *)
(***************************************************************************)
PostHandler == "FinancialNewsHandler.do_POST"

\* body.get("text", "")
text_of(body) == IF "text" \in DOMAIN body THEN body["text"] ELSE PyStr("")

\* the response once the classifier has run on text: 500 from the handler's
\* except Exception when it raised
analyzed(fn, text_value, sentiment_result) ==
    IF HasRaised(sentiment_result)
    THEN [fn |-> fn, status |-> 500, raised |-> sentiment_result.raised,
          called |-> <<"analyze_sentiment">>]
    ELSE [fn |-> fn, status |-> 200, called |-> <<"analyze_sentiment">>,
          body |-> [status |-> "success",
                    data |-> [text |-> text_value,
                              sentiment |-> sentiment_result.sentiment,
                              score |-> sentiment_result.score]]]

\* run_backend.py, lines 560-577
analyze_text_endpoint(text_value, draw) ==
    IF ~Truthy(text_value) THEN send_error(PostHandler, 400, "Missing 'text' parameter")
    ELSE analyzed(PostHandler, text_value, analyze_sentiment(text_value, draw))

\* run_backend.py, FinancialNewsHandler.do_POST
do_POST(path, body, draw) ==
    IF path = "/api/analyze_text" THEN analyze_text_endpoint(text_of(body), draw)
    ELSE send_error(PostHandler, 404, "Not Found")

\* raise HTTPException(status_code=code), as FastAPI answers it
http_exception(fn, code, called) == [fn |-> fn, status |-> code, called |-> called]

\* backend.py, lines 416-417 and 430-432: the HTTPException(400) is raised
\* inside the try and caught by except Exception, which raises
\* HTTPException(500)
text_required(fn) == http_exception(fn, 500, <<>>)

\* backend.py, lines 419-432
backend_analyzed(fn, text_value, sentiment_result) ==
    IF HasRaised(sentiment_result) THEN http_exception(fn, 500, <<"analyze_sentiment">>)
    ELSE analyzed(fn, text_value, sentiment_result)

backend_text_endpoint(fn, text_value, draw) ==
    IF ~Truthy(text_value) THEN text_required(fn)
    ELSE backend_analyzed(fn, text_value, backend_analyze_sentiment(text_value, draw))

\* backend.py, analyze_custom_text(text_data)
analyze_custom_text(text_data, draw) ==
    backend_text_endpoint("backend.analyze_custom_text", text_of(text_data), draw)

(***************************************************************************)
(* One POST request served by one of the two servers.                      *)
(***************************************************************************)
\* the JSON objects sent: no key, another key only, text with a string (the
\* empty one included), a number, zero or null
Bodies ==
    {EmptyDict, SetItem(EmptyDict, "title", PyStr("Shares plunge"))}
        \cup {SetItem(EmptyDict, "text", v) : v \in Texts \cup NonStrings \cup {PyInt(0), None}}

PostRequests ==
    {[path |-> p, body |-> b] : p \in {"/api/analyze_text", "/api/analyze"}, b \in Bodies}

InitPost ==
    /\ text = None
    /\ first = NoCall
    /\ second = NoCall
    /\ clock = StoppedClock
    /\ request \in PostRequests
    /\ stream \in {<<draw>> : draw \in Draws}
    /\ fault = {}
    /\ corrupt = {}
    /\ NoDashboard
    /\ response = NoResponse

\* run_backend.py: a POST request served by FinancialNewsHandler
DoPost ==
    /\ response = NoResponse
    /\ "body" \in DOMAIN request
    /\ response' = do_POST(request.path, request.body, DrawAt(0))
    /\ Idle

\* backend.py: POST /api/analyze_text served by the FastAPI application
AnalyzeCustomText ==
    /\ response = NoResponse
    /\ "body" \in DOMAIN request
    /\ request.path = "/api/analyze_text"
    /\ response' = analyze_custom_text(request.body, DrawAt(0))
    /\ Idle

NextPost == DoPost \/ AnalyzeCustomText

SpecPost == InitPost /\ [][NextPost]_vars

(***************************************************************************)
(* run_frontend.py and frontend.py, convert_to_csv.  A record is a dict    *)
(* with the order of its keys: a sequence of <<key, value>> pairs.  A      *)
(* float is written num / 2^exp, with num odd unless exp = 0.              *)
(***************************************************************************)
PyFloat(num, exp) == [num |-> num, exp |-> exp]
IsFloat(v) == "exp" \in DOMAIN v

\* list(item.keys())
keys(item) == [i \in DOMAIN item |-> item[i][1]]

\* item.get(key, default)
get(item, key, default) ==
    IF \E i \in DOMAIN item : item[i][1] = key
    THEN item[CHOOSE i \in DOMAIN item : item[i][1] = key][2]
    ELSE default

\* str(n) of an int
int_str(n) == IF n < 0 THEN "-" \o DecimalText(-n) ELSE DecimalText(n)

\* str(x) of a float x = num / 2^exp >= 0.0001: the integer part, the point
\* and the exp digits of the fraction, which are (num mod 2^exp) * 5^exp
float_str(num, exp) ==
    DecimalText(num \div (2 ^ exp)) \o "."
        \o (IF exp = 0 THEN "0" ELSE Zfill((num % (2 ^ exp)) * (5 ^ exp), exp))

\* str(value)
py_str(value) ==
    IF IsStr(value) THEN value.str
    ELSE IF IsInt(value) THEN int_str(value.int)
    ELSE IF IsFloat(value) THEN float_str(value.num, value.exp)
    ELSE "None"

\* sep.join(parts)
RECURSIVE join(_, _)
join(parts, sep) ==
    IF parts = <<>> THEN ""
    ELSE IF Len(parts) = 1 THEN parts[1]
    ELSE parts[1] \o sep \o join(Tail(parts), sep)

\* mutant: a key the record does not have is left out of the row
row_of_present(item, headers) ==
    [i \in DOMAIN SelectSeq(headers, LAMBDA h : \E k \in DOMAIN item : item[k][1] = h) |->
        py_str(get(item,
            SelectSeq(headers, LAMBDA h : \E k \in DOMAIN item : item[k][1] = h)[i],
            PyStr("")))]

\* row = [str(item.get(header, "")) for header in headers]
row_of(item, headers) ==
    [i \in DOMAIN headers |-> py_str(get(item, headers[i], PyStr("")))]

\* the loop over data from item i on: csv_content += ",".join(row) + "\n"
RECURSIVE csv_rows(_, _, _, _)
csv_rows(data, i, headers, csv_content) ==
    IF i > Len(data) THEN csv_content
    ELSE csv_rows(data, i + 1, headers,
             csv_content \o join(row_of(data[i], headers), ",") \o "\n")

\* ord(c) of a character of codes 32..126 or a newline
ord(c) ==
    IF c = "\n" THEN 10
    ELSE IF c = "?" THEN 63
    ELSE 31 + IndexOf(AsciiFrom32, c)

\* s.encode('utf-8') of an ASCII str: one byte per character
encode(s) == [i \in 1..Len(s) |-> ord(Char(s, i))]

\* if not data: return "".encode('utf-8'); otherwise the header and the rows
convert_to_csv(data) ==
    IF data = <<>> THEN encode("")
    ELSE encode(csv_rows(data, 1, keys(data[1]), join(keys(data[1]), ",") \o "\n"))

\* frontend.py has the same function, character for character
frontend_convert_to_csv(data) == convert_to_csv(data)

(***************************************************************************)
(* One list of records converted by one of the two dashboards.             *)
(***************************************************************************)
\* the longest list converted
MaxRecords == 2

\* records as the export returns them, and records that differ from them: a
\* comma in the title, other keys, keys in another order, a key missing, an
\* int, a null, an empty title, a title of two lines
CsvRecords ==
    {<< <<"title", PyStr("A")>>, <<"score", PyFloat(1, 1)>> >>,
     << <<"title", PyStr("Profits up, shares fall")>>, <<"score", PyFloat(13, 4)>>,
        <<"ticker", PyStr("AAPL")>> >>,
     << <<"score", PyFloat(1, 0)>>, <<"title", PyStr("Markets reach record highs")>> >>,
     << <<"title", PyStr("Is the rally over?")>> >>,
     << <<"ticker", PyStr("MSFT")>>, <<"count", PyInt(-12)>>, <<"link", None>> >>,
     << <<"title", PyStr("")>>, <<"score", PyFloat(3, 2)>>, <<"count", PyInt(0)>> >>,
     << <<"title", PyStr("Fed holds rates\nMarkets calm")>>, <<"score", PyFloat(5, 3)>> >>,
     << >>}

RECURSIVE ListsOf(_, _)
ListsOf(records, n) ==
    IF n = 0 THEN {<<>>}
    ELSE ListsOf(records, n - 1)
             \cup {Append(list, r) : list \in ListsOf(records, n - 1), r \in records}

InitCsv ==
    /\ text = None
    /\ first = NoCall
    /\ second = NoCall
    /\ clock = StoppedClock
    /\ request \in {[data |-> list] : list \in ListsOf(CsvRecords, MaxRecords)}
    /\ stream = <<>>
    /\ fault = {}
    /\ corrupt = {}
    /\ NoDashboard
    /\ response = NoResponse

\* run_frontend.py: the download of the export
ConvertToCsv ==
    /\ response = NoResponse
    /\ "data" \in DOMAIN request
    /\ response' = [fn |-> "run_frontend.convert_to_csv",
                    bytes |-> convert_to_csv(request.data)]
    /\ Idle

\* frontend.py: the download of the export
FrontendConvertToCsv ==
    /\ response = NoResponse
    /\ "data" \in DOMAIN request
    /\ response' = [fn |-> "frontend.convert_to_csv",
                    bytes |-> frontend_convert_to_csv(request.data)]
    /\ Idle

NextCsv == ConvertToCsv \/ FrontendConvertToCsv

SpecCsv == InitCsv /\ [][NextCsv]_vars

(***************************************************************************)
(* What the claims about the served requests speak of.                     *)
(***************************************************************************)
\* the request as the handler parses it
Path == parse_query_params(request.raw).path
Params == parse_query_params(request.raw).params

\* the handler of run_backend.py answered 200 with a list of records
ServedNews(path) ==
    /\ response.fn = Handler
    /\ "news" \in DOMAIN response
    /\ Path = path

\* the lookback the request asks for: days, or the default of the endpoint
AskedDays(default) == days_param(Params, default).int

\* the limit the request asks for: an int, None when max_results is absent,
\* ValueError when it is not a number
AskedLimit ==
    IF "max_results" \in DOMAIN Params THEN py_int(Params["max_results"]) ELSE None

\* the records that survive the filters of the request, newest first: what
\* get_news returns for the same request without max_results
Surviving(default) ==
    get_news(Params["tickers"], AskedDays(default), get_param(Params, "start_date"),
        get_param(Params, "end_date"), None)

\* one of the two servers answered GET /api/sentiment_summary with a summary
SummaryServed ==
    /\ response # NoResponse
    /\ "summary" \in DOMAIN response

\* the tickers of the request as both servers read them
AskedTickers ==
    {ticker_list_of(Params["tickers"])[i] : i \in DOMAIN ticker_list_of(Params["tickers"])}


\* C11: NewsAPI.get_news truncates after date filtering and sorting: with n
\* records surviving the filters it returns exactly the first
\* min(max_results, n) records of the newest-first list when max_results is a
\* positive integer, and all n records when max_results is absent, 0 or
\* negative.
C11_TruncatedAfterFilterAndSort ==
    ServedNews("/api/news") =>
        LET full == Surviving(NewsDefaultDays)
            m == AskedLimit
        IN  /\ (IsInt(m) /\ m.int > 0) =>
                  /\ Len(response.news) = Min(m.int, Len(full))
                  /\ response.news = SubSeq(full, 1, Len(response.news))
            /\ (m = None \/ (IsInt(m) /\ m.int <= 0)) => response.news = full

\* a request with a range and max_results=2 for which more than two records
\* survive: the two newest are returned
C11_Witness ==
    /\ ServedNews("/api/news")
    /\ "start_date" \in DOMAIN Params
    /\ AskedLimit = PyInt(2)
    /\ Len(Surviving(NewsDefaultDays)) > 2
    /\ Len(response.news) = 2

\* one of the export functions answered a request with a positive max_results
Exported ==
    /\ response # NoResponse
    /\ response.fn \in {"NewsAPI.export_data", "backend.export_data"}
    /\ IsInt(request.max_results)
    /\ request.max_results.int > 0

\* all the records that survive the filters of the request, as the server
\* that answered collects them
FilteredForExport ==
    IF response.fn = "NewsAPI.export_data"
    THEN get_news(request.tickers, request.days, request.start_date, request.end_date, None)
    ELSE backend_collect_news(ticker_list_of(request.tickers), 1, Max(1, request.days),
             ExportDefaultLimit, NoNews).news

\* C12: the export output is the date-filtered records sorted by ascending
\* published_date and then truncated: for a positive max_results, export_data
\* returns the first max_results records of the ascending list of all filtered
\* records (the oldest ones), in both servers.
C12_ExportOldestFirstTruncated ==
    Exported =>
        response.news = Prefix(sorted(FilteredForExport, FALSE), request.max_results.int)

\* the part of C12 that is about backend.py
BackendExportOldestFirstTruncated ==
    (Exported /\ response.fn = "backend.export_data") => C12_ExportOldestFirstTruncated

\* the positions of the records of one ticker in a list of records
RecordsOf(news, ticker) == {i \in 1..Len(news) : news[i].ticker = ticker}

\* C13: in backend.py max_results is the maximum number of news items
\* returned per ticker: GET /api/news returns at most max(1, max_results)
\* records for each requested ticker.
C13_AtMostMaxResultsPerTicker ==
    (response # NoResponse /\ response.fn = "backend.get_news") =>
        \A i \in DOMAIN ticker_list_of(request.tickers) :
            Cardinality(RecordsOf(response.news, ticker_list_of(request.tickers)[i]))
                <= results_limit_of(request.max_results, NewsDefaultLimit)

\* C14: for every request and every ticker entry of the sentiment summary,
\* positive + negative + neutral = total_news, all four counts are >= 0, and
\* avg_sentiment_score = (positive - negative) / total_news when
\* total_news > 0, so that -1 <= avg_sentiment_score <= 1.
C14_SummaryCountsAddUp ==
    SummaryServed =>
        \A t \in DOMAIN response.summary :
            LET entry == response.summary[t]
            IN  /\ entry.positive + entry.negative + entry.neutral = entry.total_news
                /\ entry.positive >= 0 /\ entry.negative >= 0
                /\ entry.neutral >= 0 /\ entry.total_news >= 0
                /\ entry.total_news > 0 =>
                      /\ entry.avg_sentiment_score
                             = true_div(entry.positive - entry.negative, entry.total_news)
                      /\ FLessEq(entry.avg_sentiment_score.float, F_1_0)

\* a summary with an entry that counts positive, negative and neutral records
C14_Witness ==
    /\ SummaryServed
    /\ \E t \in DOMAIN response.summary :
           /\ response.summary[t].positive > 0
           /\ response.summary[t].neutral > 0
           /\ response.summary[t].negative > 0

\* the tickers of the request in the order both servers go through them
AskedList == ticker_list_of(Params["tickers"])

\* the clock readings and draws made before the server turns to the i-th
\* ticker of the request
EnvBefore(i) ==
    IF response.fn = Handler
    THEN summary_loop(SubSeq(AskedList, 1, i - 1), 1, AskedDays(NewsDefaultDays),
             get_param(Params, "start_date"), get_param(Params, "end_date"), None,
             NoSummary).env
    ELSE backend_summary_loop(SubSeq(AskedList, 1, i - 1), 1,
             Max(1, AskedDays(NewsDefaultDays)), NewsDefaultLimit, NoSummary).env

\* the records of the i-th ticker that survive the filters of the request,
\* as the server that answered collects them
SurvivingAt(i) ==
    IF response.fn = Handler
    THEN summary_news(AskedList[i], AskedDays(NewsDefaultDays),
             get_param(Params, "start_date"), get_param(Params, "end_date"), None,
             EnvBefore(i)).news
    ELSE backend_get_financial_news(AskedList[i], Max(1, AskedDays(NewsDefaultDays)),
             NewsDefaultLimit, EnvBefore(i)).news

\* the i-th ticker is not requested again further on
LastAsked(i) == \A j \in DOMAIN AskedList : j > i => AskedList[j] # AskedList[i]

ZeroEntry ==
    [total_news |-> 0, positive |-> 0, negative |-> 0, neutral |-> 0,
     avg_sentiment_score |-> PyInt(0)]

\* C15: the sentiment summary has exactly one entry for each distinct
\* normalized requested ticker, and a requested ticker for which no record
\* survives the filters gets the entry {total_news: 0, positive: 0,
\* negative: 0, neutral: 0, avg_sentiment_score: 0}.
C15_OneEntryPerRequestedTicker ==
    SummaryServed =>
        /\ DOMAIN response.summary = AskedTickers
        /\ \A i \in DOMAIN AskedList :
               (LastAsked(i) /\ SurvivingAt(i) = <<>>)
                   => response.summary[AskedList[i]] = ZeroEntry

\* three tickers requested of which two are the same, and nothing within the
\* lookback: two entries, both zero
C15_Witness ==
    /\ SummaryServed
    /\ Len(AskedList) = 3
    /\ Cardinality(AskedTickers) = 2
    /\ \A i \in DOMAIN AskedList :
           SurvivingAt(i) = <<>> /\ response.summary[AskedList[i]] = ZeroEntry

\* the lookback the server that answered applies
AppliedDays ==
    IF response.fn \in {"backend.get_news", "backend.export_data"}
    THEN Max(1, request.days) ELSE request.days

\* the cutoff of the turn of the j-th symbol
CutoffOf(j) == DtMinus(Now((j - 1) * ClockReadings + 1), AppliedDays, 0)

\* the turn of the j-th symbol raises: strptime on an entry whose date does
\* not parse, or the analysis of a headline inside the lookback
TurnRaises(j) ==
    \E e \in EntriesOf(j) :
        IF e.title \in corrupt THEN TRUE
        ELSE e.title \in fault /\ ~DtLess(Published(e), CutoffOf(j))

\* the entries of the j-th symbol that parse and are inside the lookback
DueOf(j) ==
    {e \in EntriesOf(j) : e.title \notin corrupt /\ ~DtLess(Published(e), CutoffOf(j))}

\* C16: per-ticker failure isolation: if processing one ticker raises (bad
\* date format, missing field), get_financial_news returns an empty list for
\* that ticker, the records of every other requested ticker are returned
\* unchanged, and get_news itself does not raise.
C16_FailureIsolatedPerTicker ==
    (response # NoResponse /\ Listing) =>
        /\ "news" \in DOMAIN response
        /\ \A j \in 1..Len(request.symbols) :
               IF TurnRaises(j)
               THEN RecordsOf(response.news, request.symbols[j]) = {}
               ELSE /\ \A e \in DueOf(j) : Holds(e, j)
                    /\ Cardinality(RecordsOf(response.news, request.symbols[j]))
                           = Cardinality(DueOf(j))

\* the second of two tickers has an entry whose date does not parse: it
\* yields nothing, the records of the first are all there
C16_Witness ==
    /\ response # NoResponse /\ Listing
    /\ corrupt # {}
    /\ Len(request.symbols) = 2
    /\ ~TurnRaises(1) /\ TurnRaises(2)
    /\ RecordsOf(response.news, request.symbols[1]) # {}
    /\ RecordsOf(response.news, request.symbols[2]) = {}

ServedWithoutTickers ==
    /\ response # NoResponse
    /\ response.fn = Handler
    /\ Path \in {"/api/news", "/api/sentiment_summary", "/api/export"}
    /\ ("tickers" \in DOMAIN Params => Params["tickers"] = "")

\* C18: a GET request to /api/news, /api/sentiment_summary or /api/export
\* that supplies no ticker symbol (the tickers parameter absent, or present
\* but empty) is answered with a 400 client error and produces no records;
\* the aggregator is not invoked.
C18_NoTickersIsClientError ==
    ServedWithoutTickers =>
        /\ "status" \in DOMAIN response
        /\ response.status = 400
        /\ response.called = <<>>
        /\ "news" \notin DOMAIN response
        /\ "summary" \notin DOMAIN response

\* the part of C18 that is about an absent tickers parameter
AbsentTickersIsClientError ==
    (ServedWithoutTickers /\ "tickers" \notin DOMAIN Params) => C18_NoTickersIsClientError

\* one of the two servers answered POST /api/analyze_text for a body whose
\* text is missing or empty
AnsweredWithoutText ==
    /\ response # NoResponse
    /\ "body" \in DOMAIN request
    /\ request.path = "/api/analyze_text"
    /\ ("text" \in DOMAIN request.body => request.body["text"] = PyStr(""))

\* C19: POST /api/analyze_text with a body whose "text" is missing or empty
\* is answered with status 400 (a client error, not a 5xx) and the classifier
\* is not run, in both the FastAPI server (backend.analyze_custom_text) and
\* the standalone server (FinancialNewsHandler.do_POST).
C19_MissingTextIsClientError ==
    AnsweredWithoutText => (response.status = 400 /\ response.called = <<>>)

\* the part of C19 that is about the standalone server
StandaloneMissingTextIsClientError ==
    (AnsweredWithoutText /\ response.fn = PostHandler) => C19_MissingTextIsClientError

\* one of the two dashboards converted a list of records
Converted ==
    /\ response # NoResponse
    /\ "bytes" \in DOMAIN response

\* the text of the value of a record under a key, empty when it has none
FieldText(item, key) ==
    IF \E k \in DOMAIN item : item[k][1] = key
    THEN py_str(item[CHOOSE k \in DOMAIN item : item[k][1] = key][2])
    ELSE ""

\* texts[i], texts[i + 1], ... with a comma between each two
RECURSIVE CommaJoined(_, _)
CommaJoined(texts, i) ==
    IF i > Len(texts) THEN ""
    ELSE IF i = Len(texts) THEN texts[i]
    ELSE texts[i] \o "," \o CommaJoined(texts, i + 1)

\* the keys of the first record in its order, and the text of the i-th
\* record under them
HeaderText(data) == CommaJoined(keys(data[1]), 1)
RowText(data, i) ==
    CommaJoined([k \in DOMAIN keys(data[1]) |-> FieldText(data[i], keys(data[1])[k])], 1)

\* the bytes cut after each newline: the lines that end in one, without it,
\* and what follows the last newline
RECURSIVE SplitLines(_, _, _, _)
SplitLines(bytes, i, current, lines) ==
    IF i > Len(bytes) THEN [lines |-> lines, rest |-> current]
    ELSE IF bytes[i] = 10 THEN SplitLines(bytes, i + 1, <<>>, Append(lines, current))
    ELSE SplitLines(bytes, i + 1, Append(current, bytes[i]), lines)

\* the output is n + 1 lines that end in a newline: the header, then the row
\* of each record
LinePerRecord(data, bytes) ==
    /\ SplitLines(bytes, 1, <<>>, <<>>).rest = <<>>
    /\ Len(SplitLines(bytes, 1, <<>>, <<>>).lines) = Len(data) + 1
    /\ SplitLines(bytes, 1, <<>>, <<>>).lines[1] = encode(HeaderText(data))
    /\ \A i \in 1..Len(data) :
           SplitLines(bytes, 1, <<>>, <<>>).lines[i + 1] = encode(RowText(data, i))

\* the header and each row followed by a newline, from record i on
RECURSIVE RowsWritten(_, _)
RowsWritten(data, i) ==
    IF i > Len(data) THEN <<>>
    ELSE encode(RowText(data, i)) \o <<10>> \o RowsWritten(data, i + 1)

\* no key of the header and no text written in a row holds a newline
NoNewlineWritten(data) ==
    /\ IndexOf(HeaderText(data), "\n") = 0
    /\ \A i \in 1..Len(data) : IndexOf(RowText(data, i), "\n") = 0

\* C20 as stated: convert_to_csv on a list of n >= 1 records returns exactly
\* n + 1 newline-terminated lines: the first is the keys of the first record
\* joined by commas in that record's key order, and line i + 1 is the text of
\* record i's values under those keys (empty text for a missing key) joined
\* by commas verbatim with no quoting or escaping; on an empty list it
\* returns empty bytes.
C20_LinePerRecord ==
    Converted =>
        IF request.data = <<>> THEN response.bytes = <<>>
        ELSE LinePerRecord(request.data, response.bytes)

\* C20 amended: the output is the header followed by a newline and then the
\* row of each record followed by a newline, every text written verbatim;
\* these are exactly n + 1 lines when none of the texts written holds a
\* newline; on an empty list the output is empty.
C20_HeaderAndRowsWritten ==
    Converted =>
        IF request.data = <<>> THEN response.bytes = <<>>
        ELSE /\ response.bytes
                    = encode(HeaderText(request.data)) \o <<10>> \o RowsWritten(request.data, 1)
             /\ NoNewlineWritten(request.data)
                    => LinePerRecord(request.data, response.bytes)

\* a record with a comma in its title and a float, then a record that has
\* only a title: three lines, the comma unquoted, the missing values empty
C20_Witness ==
    /\ Converted
    /\ request.data
           = << << <<"title", PyStr("Profits up, shares fall")>>, <<"score", PyFloat(13, 4)>>,
                   <<"ticker", PyStr("AAPL")>> >>,
                << <<"title", PyStr("Is the rally over?")>> >> >>
    /\ response.bytes
           = encode("title,score,ticker\nProfits up, shares fall,0.8125,AAPL\nIs the rally over?,,\n")

(***************************************************************************)
(* get_financial_news of the two servers called for one ticker, and called *)
(* again at another time.                                                  *)
(***************************************************************************)
\* the five tickers of ticker_news, and symbols that are not among them
CorpusTickers == {"AAPL", "MSFT", "GOOGL", "AMZN", "TSLA", "XYZ", "aapl", "BRK.B"}

\* lookbacks around the age of the oldest entry, the defaults of the two
\* endpoints, and one longer than the calendar
CorpusLookbacks == {2, 3, 4, 5, 7, 30, 800000}

CorpusRequests == {[ticker |-> t, days |-> d] : t \in CorpusTickers, d \in CorpusLookbacks}

InitCorpus ==
    /\ text = None
    /\ first = NoCall
    /\ second = NoCall
    /\ clock \in Clocks
    /\ request \in CorpusRequests
    /\ stream = ServeStream
    /\ fault = {}
    /\ corrupt = {}
    /\ NoDashboard
    /\ response = NoResponse

\* run_backend.py, NewsAPI.get_financial_news(ticker, days)
GetFinancialNews ==
    /\ response = NoResponse
    /\ "ticker" \in DOMAIN request
    /\ response' = [fn |-> "NewsAPI.get_financial_news",
                    news |-> get_financial_news(request.ticker, request.days,
                                 NoNews.env).news]
    /\ Idle

\* backend.py, get_financial_news(ticker, days, max_results)
BackendGetFinancialNews ==
    /\ response = NoResponse
    /\ "ticker" \in DOMAIN request
    /\ response' = [fn |-> "backend.get_financial_news",
                    news |-> backend_get_financial_news(request.ticker, request.days,
                                 NewsDefaultLimit, NoNews.env).news]
    /\ Idle

\* the first call is over and time has passed: the same call is made again
CallAgain(later) ==
    /\ response # NoResponse
    /\ first = NoCall
    /\ first' = response
    /\ response' = NoResponse
    /\ clock' = later
    /\ UNCHANGED <<text, second, request, stream, fault, corrupt, session_state, cache,
                   widgets>>

NextCorpus ==
    \/ GetFinancialNews
    \/ BackendGetFinancialNews
    \/ \E later \in Clocks : CallAgain(later)

SpecCorpus == InitCorpus /\ [][NextCorpus]_vars

(***************************************************************************)
(* run_frontend.py: the sidebar of main, the three cached fetch functions  *)
(* and the two buttons.  The answer of the backend to a request is         *)
(* represented by the request: the URL and the parameters sent.  What the  *)
(* functions note for the debug panel alone (api_calls, last_news_count,   *)
(* last_export_count) is not kept.                                         *)
(***************************************************************************)
\* st.session_state.get(key, default)
session_get(session, key, default) ==
    IF key \in DOMAIN session THEN session[key] ELSE default

\* int(time.time()): the seconds since 1970
time_time(now) == now.day * SecondsPerDay + now.sec

\* lines 49-55: the parameter added when a refresh is forced
cache_buster_of(session, now) ==
    IF session_get(session, "force_refresh", FALSE)
    THEN "&_=" \o DecimalText(time_time(now))
    ELSE ""

\* lines 70-73: start_date and end_date are sent for a custom range
with_range(params, date_range) ==
    IF /\ date_range.method = "custom"
       /\ Truthy(date_range.start_date)
       /\ Truthy(date_range.end_date)
    THEN SetItem(SetItem(params, "start_date", date_range.start_date.str),
             "end_date", date_range.end_date.str)
    ELSE params

\* lines 58-73: params as requests.get receives it
request_params(tickers, days, max_results, session, now) ==
    with_range([tickers |-> join(tickers, ","), days |-> days,
                max_results |-> max_results,
                cache_buster |-> cache_buster_of(session, now)],
        session_get(session, "date_range", [method |-> "days", days |-> days]))

\* requests.get(url, params=params).json(): what the backend answers
requests_get(url, params) == [url |-> url, params |-> params]

\* lines 50-51: fetch_news takes the forced refresh back
refresh_taken(session) ==
    IF session_get(session, "force_refresh", FALSE)
    THEN SetItem(session, "force_refresh", FALSE)
    ELSE session

\* the body of fetch_news: [value, session]
fetch_news_body(tickers, days, session, now) ==
    [value |-> requests_get("/api/news", request_params(tickers, days, 1000, session, now)),
     session |-> refresh_taken(session)]

\* the body of fetch_sentiment_summary
fetch_sentiment_summary_body(tickers, days, session, now) ==
    [value |-> requests_get("/api/sentiment_summary",
                   request_params(tickers, days, 1000, session, now)),
     session |-> session]

\* the body of fetch_export_data
fetch_export_data_body(tickers, days, session, now) ==
    [value |-> requests_get("/api/export", request_params(tickers, days, 5000, session, now)),
     session |-> session]

fetch_body(fn, tickers, days, session, now) ==
    CASE fn = "fetch_news" -> fetch_news_body(tickers, days, session, now)
      [] fn = "fetch_sentiment_summary" ->
             fetch_sentiment_summary_body(tickers, days, session, now)
      [] fn = "fetch_export_data" -> fetch_export_data_body(tickers, days, session, now)

\* @st.cache_data: the entries of a function are keyed by its arguments
cache_key(tickers, days) == <<tickers, days>>

\* the call ran the body: its value is stored under the key
missed(fn, key, body, run) ==
    [run EXCEPT !.value = body.value,
                !.session = body.session,
                !.cache = [run.cache EXCEPT ![fn] = SetItem(run.cache[fn], key, body.value)],
                !.called = Append(run.called, fn)]

\* a call of a function decorated with @st.cache_data(ttl=300,
\* max_entries=10): the value stored for the arguments is returned and the
\* body does not run; else the body runs.  run is [value, session, cache,
\* called]; fewer than max_entries keys are ever in use here.
cached_call(fn, tickers, days, run, now) ==
    IF cache_key(tickers, days) \in DOMAIN run.cache[fn]
    THEN [run EXCEPT !.value = run.cache[fn][cache_key(tickers, days)]]
    ELSE missed(fn, cache_key(tickers, days),
             fetch_body(fn, tickers, days, run.session, now), run)

(***************************************************************************)
(* run_frontend.py, main: one run of the script from the sidebar to the    *)
(* export button.  w is what the widgets hold during the run.              *)
(***************************************************************************)
\* lines 324-326
started(session) ==
    IF "page_number" \in DOMAIN session THEN session
    ELSE SetItem(session, "page_number", 1)

\* line 354: the symbols entered, trimmed and upper-cased, empty ones left out
selected_tickers_of(all_tickers) ==
    SelectSeq(ticker_list_of(all_tickers), LAMBDA ticker : ticker # "")

\* lines 368-374 and 398-400: the days of the preset, or of the custom range
\* with both its ends
selected_days_of(w) ==
    IF w.date_selection_method = "Preset days" THEN w.selected_days
    ELSE w.end_date - w.start_date + 1

\* lines 379-384 and 403-408: st.session_state['date_range']
date_range_of(w) ==
    IF w.date_selection_method = "Preset days"
    THEN [method |-> "days", days |-> w.selected_days, start_date |-> None,
          end_date |-> None]
    ELSE [method |-> "custom", days |-> selected_days_of(w),
          start_date |-> PyStr(strftime_date(datetime(w.start_date, 0, 0))),
          end_date |-> PyStr(strftime_date(datetime(w.end_date, 0, 0)))]

\* what a run shows before anything is fetched
NothingShown ==
    [stopped |-> FALSE, news_data |-> <<>>, sentiment_summary |-> <<>>,
     export_data |-> None]

\* the value a fetch function returned is what the run shows under name
kept(run, name) == [run EXCEPT !.shown = SetItem(run.shown, name, run.value)]

\* lines 420-425
fetched(backend_available, tickers, days, run, now) ==
    IF backend_available
    THEN kept(cached_call("fetch_sentiment_summary", tickers, days,
                  kept(cached_call("fetch_news", tickers, days, run, now), "news_data"),
                  now),
             "sentiment_summary")
    ELSE run

\* lines 462-468: the button Clear Cache.  st.cache_data.clear() exists
\* wherever the decorator st.cache_data does, so the fallback of 469-471
\* is never taken and force_refresh is never set.
cache_cleared(clicked, run) ==
    IF clicked = "Clear Cache"
    THEN [run EXCEPT !.cache = [fn \in DOMAIN run.cache |-> <<>>]]
    ELSE run

\* lines 748-751: the button Export Sentiment Data (CSV)
exported(clicked, backend_available, tickers, days, run, now) ==
    IF clicked = "Export Sentiment Data (CSV)" /\ backend_available
    THEN kept(cached_call("fetch_export_data", tickers, days, run, now), "export_data")
    ELSE run

\* the run from line 361 on, once tickers are selected
main_with(w, backend_available, clicked, tickers, run, now) ==
    exported(clicked, backend_available, tickers, w.export_days,
        cache_cleared(clicked,
            fetched(backend_available, tickers, selected_days_of(w),
                [run EXCEPT !.session = SetItem(run.session, "date_range", date_range_of(w))],
                now)),
        now)

\* main: st.stop() at line 359 ends the run when no ticker is entered
main(w, backend_available, clicked, session, store, now) ==
    IF selected_tickers_of(w.all_tickers) = <<>>
    THEN [value |-> None, session |-> started(session), cache |-> store, called |-> <<>>,
          shown |-> [NothingShown EXCEPT !.stopped = TRUE]]
    ELSE main_with(w, backend_available, clicked,
             selected_tickers_of(w.all_tickers),
             [value |-> None, session |-> started(session), cache |-> store,
              called |-> <<>>, shown |-> NothingShown],
             now)

(***************************************************************************)
(* The dashboard in use: the page is loaded, the user changes the widgets  *)
(* of the sidebar, clicks one of the two buttons, or leaves the page alone *)
(* until an entry of the cache is older than its ttl.                      *)
(***************************************************************************)
DEFAULT_TICKERS == <<"AAPL", "MSFT", "GOOGL", "AMZN", "TSLA">>
DEFAULT_DAYS == 7
ExportDaysDefault == 30

\* the texts entered for the tickers: the default, one symbol in lower
\* case, and nothing but a comma
TickerTexts == {join(DEFAULT_TICKERS, ","), " aapl", " , "}

\* the look back periods chosen among days_options
PresetDays == {DEFAULT_DAYS, 30}

\* custom ranges: the last seven days, seven days ending three days ago
CustomRanges(today) ==
    {[start_date |-> today - 6, end_date |-> today],
     [start_date |-> today - 9, end_date |-> today - 3]}

WidgetInputs(today) ==
    {[all_tickers |-> t, date_selection_method |-> "Preset days", selected_days |-> d,
      export_days |-> ExportDaysDefault] : t \in TickerTexts, d \in PresetDays}
    \cup
    {[all_tickers |-> t, date_selection_method |-> "Custom date range",
      start_date |-> r.start_date, end_date |-> r.end_date,
      export_days |-> ExportDaysDefault] :
        t \in TickerTexts, r \in CustomRanges(today)}

FetchFunctions == {"fetch_news", "fetch_sentiment_summary", "fetch_export_data"}

InitDashboard ==
    /\ text = None
    /\ first = NoCall
    /\ second = NoCall
    /\ request = NoRequest
    /\ clock = [start |-> datetime(DaysFromCivil(2026, 11, 3), 9 * SecondsPerHour, 0),
                step |-> 0]
    /\ stream = <<>>
    /\ fault = {}
    /\ corrupt = {}
    /\ session_state = <<>>
    /\ cache = [fn \in FetchFunctions |-> <<>>]
    /\ widgets = <<>>
    /\ response = NoResponse

\* the run is over: what it showed, and what it left in the session and in
\* the cache
Shows(w, backend_available, clicked, run) ==
    /\ response' = [fn |-> "main", backend_available |-> backend_available,
                    clicked |-> clicked, shown |-> run.shown, called |-> run.called]
    /\ session_state' = run.session
    /\ cache' = run.cache
    /\ widgets' = w
    /\ UNCHANGED <<text, first, second, request, clock, stream, fault, corrupt>>

\* the page is loaded, or a widget of the sidebar is changed: the script runs
Rerun(w, backend_available) ==
    /\ Shows(w, backend_available, "",
           main(w, backend_available, "", session_state, cache, clock.start))

\* the user clicks Clear Cache
ClickClearCache(backend_available) ==
    /\ response.fn = "main" /\ ~response.shown.stopped
    /\ Shows(widgets, backend_available, "Clear Cache",
           main(widgets, backend_available, "Clear Cache", session_state, cache,
               clock.start))

\* the user clicks Export Sentiment Data (CSV)
ClickExport(backend_available) ==
    /\ response.fn = "main" /\ ~response.shown.stopped
    /\ Shows(widgets, backend_available, "Export Sentiment Data (CSV)",
           main(widgets, backend_available, "Export Sentiment Data (CSV)",
               session_state, cache, clock.start))

\* ttl=300: the page is left alone until every entry is older than five
\* minutes
Expire ==
    /\ \E fn \in FetchFunctions : cache[fn] # <<>>
    /\ cache' = [fn \in FetchFunctions |-> <<>>]
    /\ UNCHANGED <<text, first, second, request, clock, stream, fault, corrupt,
                   session_state, widgets, response>>

NextDashboard ==
    \/ \E w \in WidgetInputs(clock.start.day), backend_available \in BOOLEAN :
           Rerun(w, backend_available)
    \/ \E backend_available \in BOOLEAN : ClickClearCache(backend_available)
    \/ \E backend_available \in BOOLEAN : ClickExport(backend_available)
    \/ Expire

SpecDashboard == InitDashboard /\ [][NextDashboard]_vars

(***************************************************************************)
(* run_frontend.py, main, lines 529-675: the list of news with its         *)
(* filters, its sort order and its pages.                                  *)
(***************************************************************************)
\* lines 579-582
filtered_news_of(news_data, filter_sentiment, filter_ticker) ==
    SelectSeq(news_data,
        LAMBDA news : news.sentiment \in filter_sentiment /\ news.ticker \in filter_ticker)

\* lines 585-592: the key of the sort
sort_key(x, sort_option) ==
    CASE sort_option = "Sentiment: Positive first" ->
             <<x.sentiment # "positive", x.sentiment # "neutral", x.published_date>>
      [] sort_option = "Sentiment: Negative first" ->
             <<x.sentiment # "negative", x.sentiment # "neutral", x.published_date>>
      [] OTHER -> <<FALSE, FALSE, x.published_date>>

\* a < b for two keys (bool, bool, str): False goes before True
KeyLess(a, b) ==
    IF a[1] # b[1] THEN b[1]
    ELSE IF a[2] # b[2] THEN b[2]
    ELSE StrLess(a[3], b[3])

\* x goes before y: reverse=True for Newest first
goes_before(x, y, sort_option) ==
    IF sort_option = "Newest first"
    THEN KeyLess(sort_key(y, sort_option), sort_key(x, sort_option))
    ELSE KeyLess(sort_key(x, sort_option), sort_key(y, sort_option))

\* filtered_news.sort(key=..., reverse=...): stable
RECURSIVE SortedBy(_, _, _, _)
SortedBy(list, i, sort_option, acc) ==
    IF i > Len(list) THEN acc
    ELSE SortedBy(list, i + 1, sort_option,
             SubSeq(acc, 1,
                 Cardinality({j \in 1..Len(acc) : ~goes_before(list[i], acc[j], sort_option)}))
             \o <<list[i]>>
             \o SubSeq(acc,
                    Cardinality({j \in 1..Len(acc) :
                        ~goes_before(list[i], acc[j], sort_option)}) + 1,
                    Len(acc)))

items_per_page == 10

\* mutant: the last page is left out when it is not full
total_pages_floor(total_news) == total_news \div items_per_page

\* line 598
total_pages_of(total_news) == (total_news + items_per_page - 1) \div items_per_page

\* lines 622-626: filtered_news[start_idx:end_idx]
page_news_of(filtered, page_number) ==
    SubSeq(filtered, (page_number - 1) * items_per_page + 1,
        Min((page_number - 1) * items_per_page + items_per_page, Len(filtered)))

\* st.selectbox("Page", options=range(1, total_pages + 1), index=index): a
\* widget of the same options and index as in the run before holds the value
\* the user gave it, any other is new and returns options[index]
selectbox_page(page, total_pages, index) ==
    IF page # None /\ page.options = total_pages /\ page.index = index
    THEN page.value
    ELSE index + 1

\* lines 652-675: the page the button clicked asks for, 0 when no button
\* shown is clicked
button_target(clicked, page_number, total_pages) ==
    IF total_pages <= 3 THEN 0
    ELSE IF page_number > 1 /\ clicked = "First" THEN 1
    ELSE IF page_number > 1 /\ clicked = "Previous" THEN page_number - 1
    ELSE IF page_number < total_pages /\ clicked = "Next" THEN page_number + 1
    ELSE IF page_number < total_pages /\ clicked = "Last" THEN total_pages
    ELSE 0

\* the pages are shown with page_number selected: [session, page, shown,
\* rerun]
page_shown(filtered, total_pages, page_number, index, target, session) ==
    [session |-> SetItem(session, "page_number",
                     IF target # 0 THEN target ELSE page_number),
     page |-> IF total_pages > 1
              THEN [options |-> total_pages, index |-> index, value |-> page_number]
              ELSE None,
     shown |-> [filtered_news |-> filtered, total_pages |-> total_pages,
                page_number |-> page_number,
                page_news |-> page_news_of(filtered, page_number)],
     rerun |-> target # 0]

\* lines 607-619: the page number of the run
page_selected(filtered, total_pages, index, clicked, session, page) ==
    IF total_pages > 1
    THEN page_shown(filtered, total_pages, selectbox_page(page, total_pages, index),
             index,
             button_target(clicked, selectbox_page(page, total_pages, index), total_pages),
             session)
    ELSE page_shown(filtered, total_pages, 1, 0, 0, session)

\* lines 593-677
paged(filtered, clicked, session, page) ==
    IF filtered # <<>>
    THEN page_selected(filtered, total_pages_of(Len(filtered)),
             Min(session["page_number"] - 1, total_pages_of(Len(filtered)) - 1),
             clicked, session, page)
    ELSE [session |-> session, page |-> None, shown |-> [filtered_news |-> <<>>],
          rerun |-> FALSE]

\* lines 529-677: news_data is what fetch_news returned
news_section(news_data, w, clicked, session, page) ==
    IF news_data = <<>>
    THEN [session |-> session, page |-> None, shown |-> [filtered_news |-> <<>>],
          rerun |-> FALSE]
    ELSE paged(SortedBy(filtered_news_of(news_data, w.filter_sentiment, w.filter_ticker),
                   1, w.sort_option, <<>>),
             clicked, session, page)

\* the news section of a run whose sidebar and fetches are done
main_news(done, w, clicked, page) ==
    IF done.shown.stopped
    THEN [session |-> done.session, page |-> None, shown |-> [filtered_news |-> <<>>],
          rerun |-> FALSE]
    ELSE news_section(done.shown.news_data, w, clicked, done.session, page)

\* one run of main with the backend reachable and its answers in the cache
main_run(w, clicked, session, store, page, now) ==
    main_news(main(w, TRUE, "", session, store, now), w, clicked, page)

\* st.rerun(): the script runs again with the widgets as they are
rerun_of(ran, w, store, now) ==
    IF ran.rerun THEN main_run(w, "", ran.session, store, ran.page, now) ELSE ran

(***************************************************************************)
(* The news list in use: the page is loaded with the answers of the        *)
(* backend in the cache, and the user changes one widget at a time or      *)
(* clicks one of the four buttons under the list.                          *)
(***************************************************************************)
\* the selections whose answers are in the cache
PageTickerTexts == {join(DEFAULT_TICKERS, ","), " aapl"}
PageDays == {1, DEFAULT_DAYS}
PageKeys ==
    {cache_key(selected_tickers_of(t), d) : t \in PageTickerTexts, d \in PageDays}

\* what the backend of run_backend.py answered to fetch_news and to
\* fetch_sentiment_summary for each selection
PagesCache ==
    [fn \in FetchFunctions |->
        IF fn = "fetch_news"
        THEN [key \in PageKeys |->
                 get_news(join(key[1], ","), key[2], None, None, PyInt(1000))]
        ELSE IF fn = "fetch_sentiment_summary"
        THEN [key \in PageKeys |->
                 get_sentiment_summary(join(key[1], ","), key[2], None, None, PyInt(1000))]
        ELSE <<>>]

AllSentiments == {"positive", "negative", "neutral"}
SentimentFilters == {AllSentiments, {"positive"}, {}}
SortOptions ==
    {"Newest first", "Oldest first", "Sentiment: Positive first",
     "Sentiment: Negative first"}

\* the tickers of the multiselect: all that are selected by default
AllTickersOf(all_tickers) ==
    {selected_tickers_of(all_tickers)[i] : i \in DOMAIN selected_tickers_of(all_tickers)}
TickerFilters == {AllTickersOf(all_tickers) : all_tickers \in PageTickerTexts}

\* the widgets when the page is loaded
DefaultWidgets ==
    [all_tickers |-> join(DEFAULT_TICKERS, ","), date_selection_method |-> "Preset days",
     selected_days |-> DEFAULT_DAYS, export_days |-> ExportDaysDefault,
     filter_sentiment |-> AllSentiments,
     filter_ticker |-> AllTickersOf(join(DEFAULT_TICKERS, ",")),
     sort_option |-> "Newest first", Page |-> None]

InitPages ==
    /\ text = None
    /\ first = NoCall
    /\ second = NoCall
    /\ request = NoRequest
    /\ clock = [start |-> datetime(DaysFromCivil(2026, 11, 3),
                              9 * SecondsPerHour + 930, 500000),
                step |-> 0]
    /\ stream = ServeStream
    /\ fault = {}
    /\ corrupt = {}
    /\ session_state = <<>>
    /\ cache = [fn \in FetchFunctions |-> <<>>]
    /\ widgets = <<>>
    /\ response = NoResponse

\* the run, and the run st.rerun() starts, are over; store is what the cache
\* holds
Displays(w, clicked, store, ran) ==
    /\ response' = [fn |-> "main", clicked |-> clicked, shown |-> ran.shown]
    /\ session_state' = ran.session
    /\ cache' = store
    /\ widgets' = [w EXCEPT !.Page = ran.page]
    /\ UNCHANGED <<text, first, second, request, clock, stream, fault, corrupt>>

Runs(w, clicked, store) ==
    Displays(w, clicked, store,
        rerun_of(main_run(w, clicked, session_state, store, w.Page, clock.start),
            w, store, clock.start))

\* the page is opened: the backend answers, and the answers are cached
Load == widgets = <<>> /\ Runs(DefaultWidgets, "", PagesCache)

Loaded == widgets # <<>>

\* the user enters other tickers: the ticker filter has new options
ChangeTickers(all_tickers) ==
    /\ Loaded /\ all_tickers # widgets.all_tickers
    /\ Runs([widgets EXCEPT !.all_tickers = all_tickers,
                            !.filter_ticker = AllTickersOf(all_tickers)], "", cache)

ChangeDays(days) ==
    /\ Loaded /\ days # widgets.selected_days
    /\ Runs([widgets EXCEPT !.selected_days = days], "", cache)

FilterSentiment(labels) ==
    /\ Loaded /\ labels # widgets.filter_sentiment
    /\ Runs([widgets EXCEPT !.filter_sentiment = labels], "", cache)

FilterTicker(tickers) ==
    /\ Loaded /\ tickers # widgets.filter_ticker
    /\ tickers \subseteq AllTickersOf(widgets.all_tickers)
    /\ Runs([widgets EXCEPT !.filter_ticker = tickers], "", cache)

SortBy(sort_option) ==
    /\ Loaded /\ sort_option # widgets.sort_option
    /\ Runs([widgets EXCEPT !.sort_option = sort_option], "", cache)

\* the user picks a page in the selectbox
SelectPage(page_number) ==
    /\ Loaded /\ widgets.Page # None
    /\ page_number \in 1..widgets.Page.options
    /\ page_number # widgets.Page.value
    /\ Runs([widgets EXCEPT !.Page = [widgets.Page EXCEPT !.value = page_number]], "", cache)

\* the four buttons are under the list when it has more than three pages
ButtonsShown == Loaded /\ "total_pages" \in DOMAIN response.shown /\ response.shown.total_pages > 3

ClickFirst ==
    /\ ButtonsShown /\ response.shown.page_number > 1
    /\ Runs(widgets, "First", cache)

ClickPrevious ==
    /\ ButtonsShown /\ response.shown.page_number > 1
    /\ Runs(widgets, "Previous", cache)

ClickNext ==
    /\ ButtonsShown /\ response.shown.page_number < response.shown.total_pages
    /\ Runs(widgets, "Next", cache)

ClickLast ==
    /\ ButtonsShown /\ response.shown.page_number < response.shown.total_pages
    /\ Runs(widgets, "Last", cache)

MaxPages == 4

NextPages ==
    \/ Load
    \/ \E all_tickers \in PageTickerTexts : ChangeTickers(all_tickers)
    \/ \E days \in PageDays : ChangeDays(days)
    \/ \E labels \in SentimentFilters : FilterSentiment(labels)
    \/ \E tickers \in TickerFilters : FilterTicker(tickers)
    \/ \E sort_option \in SortOptions : SortBy(sort_option)
    \/ \E page_number \in 1..MaxPages : SelectPage(page_number)
    \/ ClickFirst
    \/ ClickPrevious
    \/ ClickNext
    \/ ClickLast

SpecPages == InitPages /\ [][NextPages]_vars

(***************************************************************************)
(* What the claims about the records and the demo corpus speak of.         *)
(***************************************************************************)
RecordFields ==
    {"title", "publisher", "link", "published_date", "ticker", "sentiment", "score"}

Labels == {"positive", "negative", "neutral"}

\* the corpus entry of one of the symbols asked for that record r was made of
FromCorpus(r) ==
    \E j \in 1..Len(request.symbols) :
        /\ r.ticker = request.symbols[j]
        /\ \E e \in EntriesOf(j) :
               e.title = r.title /\ e.published_date = r.published_date

\* C21: every record returned by get_news, export_data or get_financial_news
\* has exactly the fields title, publisher, link, published_date, ticker,
\* sentiment, score; its title is non-empty, its sentiment is exactly one of
\* positive/negative/neutral, and its published_date is a canonical
\* YYYY-MM-DD HH:MM:SS string equal to the corpus entry's string (parsing
\* then re-formatting the date is the identity).
C21_RecordsWellFormed ==
    (response # NoResponse /\ "news" \in DOMAIN response) =>
        \A i \in 1..Len(response.news) :
            /\ DOMAIN response.news[i] = RecordFields
            /\ response.news[i].title # ""
            /\ response.news[i].sentiment \in Labels
            /\ ~HasRaised(strptime(response.news[i].published_date))
            /\ strftime(strptime(response.news[i].published_date))
                   = response.news[i].published_date
            /\ Len(response.news[i].published_date) = 19
            /\ FromCorpus(response.news[i])

\* an export of the backend with records of two tickers, stamped by a clock
\* that passes midnight during the request
C21_Witness ==
    /\ response # NoResponse
    /\ response.fn = "backend.export_data"
    /\ clock.step = 1
    /\ Len(request.symbols) = 2
    /\ \E i, k \in 1..Len(response.news) : response.news[i].ticker # response.news[k].ticker

\* one of the two get_financial_news returned for a direct call
Fetched ==
    /\ response # NoResponse
    /\ response.fn \in {"NewsAPI.get_financial_news", "backend.get_financial_news"}

KnownTickers == {"AAPL", "MSFT", "GOOGL", "AMZN", "TSLA"}

\* the titles of the ticker-agnostic headlines, of the headlines written for
\* a known ticker, and of the generic ones
MarketTitles == {common_news(0)[i].title : i \in 1..Len(common_news(0))}
SpecificTitles(ticker) ==
    {specific_news(ticker, 0)[i].title : i \in 1..Len(specific_news(ticker, 0))}
GenericTitles(ticker) ==
    {default_ticker_news(ticker, 0)[i].title : i \in 1..Len(default_ticker_news(ticker, 0))}

TitlesIn(news) == {news[i].title : i \in 1..Len(news)}

\* the second four days before the call started
FourDaysBefore == datetime(clock.start.day - 4, clock.start.sec, 0)

\* the seven headlines of the ticker, none older than four days
SevenHeadlines(news, ticker) ==
    /\ Len(news) = 7
    /\ Cardinality(TitlesIn(news)) = 7
    /\ Cardinality(TitlesIn(news) \cap MarketTitles) = 4
    /\ Cardinality(MarketTitles) = 4
    /\ IF ticker \in KnownTickers
       THEN TitlesIn(news) \ MarketTitles = SpecificTitles(ticker)
       ELSE /\ TitlesIn(news) \ MarketTitles = GenericTitles(ticker)
            /\ \A t \in TitlesIn(news) \ MarketTitles : Contains(t, ticker)
    /\ \A i \in 1..Len(news) :
           /\ news[i].ticker = ticker
           /\ DtLessEq(FourDaysBefore, Published(news[i]))

\* C22: for every ticker and every lookback of at least 5 days,
\* get_financial_news returns exactly 7 records: the 4 ticker-agnostic market
\* headlines (1 to 4 days old) plus 3 ticker-specific headlines when the
\* ticker is one of AAPL, MSFT, GOOGL, AMZN, TSLA, and otherwise 3 generic
\* headlines whose titles contain the ticker symbol; no record is older than
\* 4 days.
C22_SevenHeadlinesPerTicker ==
    (Fetched /\ request.days >= 5) => SevenHeadlines(response.news, request.ticker)

\* the part of C22 for the lookbacks that reach no further back than the
\* first day of the calendar
SevenHeadlinesWithinCalendar ==
    (Fetched /\ request.days >= 5 /\ ~HasRaised(DtMinus(clock.start, request.days, 0)))
        => SevenHeadlines(response.news, request.ticker)

\* C27: for a fixed ticker and a fixed days value, the set of headline titles
\* returned by get_financial_news is the same at every instant of call: it
\* does not depend on the sub-second position of the clock nor on the time
\* that elapses between computing the cutoff and stamping the headlines.
C27_TitlesIndependentOfInstant ==
    (Fetched /\ first # NoCall /\ first.fn = response.fn) =>
        TitlesIn(first.news) = TitlesIn(response.news)

\* what the claim compares of a list: title, ticker, date and label of each
\* record, in order
Shown(news) ==
    [i \in 1..Len(news) |->
        <<news[i].title, news[i].ticker, news[i].published_date, news[i].sentiment>>]

\* the list the server that answered returns, at the same instant, for the
\* same symbols written in upper case with nothing around the commas
CanonicalListing ==
    IF response.fn = "NewsAPI.get_news"
    THEN get_news(Join(request.symbols, "plain"), request.days, request.start_date,
             request.end_date, request.max_results)
    ELSE backend_get_news(Join(request.symbols, "plain"), request.days,
             request.max_results)

\* C23: ticker input is case-insensitive and whitespace-insensitive: two
\* tickers strings that differ only in letter case and in spaces around the
\* commas produce, at the same instant, lists with identical titles, tickers,
\* dates and labels in identical order, and every returned ticker field is
\* the upper-cased trimmed symbol.
C23_TickersNormalized ==
    (response # NoResponse /\ Listing) =>
        /\ Shown(response.news) = Shown(CanonicalListing)
        /\ \A i \in 1..Len(response.news) : response.news[i].ticker \in Requested

\* tsla and aapl written in lower case with spaces: the headlines written
\* for TSLA and for AAPL are returned
C23_Witness ==
    /\ response # NoResponse /\ Listing
    /\ request.tickers # Join(request.symbols, "plain")
    /\ request.symbols = <<"TSLA", "AAPL">>
    /\ \E i \in 1..Len(response.news) :
           response.news[i].ticker = "AAPL"
               /\ response.news[i].title \in SpecificTitles("AAPL")
    /\ \E i \in 1..Len(response.news) :
           response.news[i].ticker = "TSLA"
               /\ response.news[i].title \in SpecificTitles("TSLA")

\* C28: when start_date is a valid YYYY-MM-DD date, NewsAPI.get_news returns
\* no record published before start_date 00:00:00 whatever the value of
\* end_date, including an end_date string that is not in YYYY-MM-DD form
\* (get_news itself returning a list, never raising, for any such strings).
C28_NothingBeforeStart ==
    (response # NoResponse /\ response.fn = "NewsAPI.get_news" /\ request.start # <<>>) =>
        /\ "news" \in DOMAIN response
        /\ \A i \in 1..Len(response.news) :
               ~DtLess(Published(response.news[i]), RangeStart)

\* the same with an end_date that is absent or a valid date
NothingBeforeStartOfValidRange ==
    (response # NoResponse /\ response.fn = "NewsAPI.get_news" /\ request.start # <<>>
        /\ RangeIsValid) =>
        \A i \in 1..Len(response.news) :
            ~DtLess(Published(response.news[i]), RangeStart)

\* the list get_news returns for the parameters of the request served, at the
\* instant the request starts
AggregatorOutput ==
    get_news(Params["tickers"], AskedDays(NewsDefaultDays),
        get_param(Params, "start_date"), get_param(Params, "end_date"),
        max_results_param(Params))

\* the numbers of records of news with ticker t: all, and with each label
Reduction(news, t) ==
    [total_news |-> Cardinality(RecordsOf(news, t)),
     positive |-> Cardinality({i \in RecordsOf(news, t) : news[i].sentiment = "positive"}),
     negative |-> Cardinality({i \in RecordsOf(news, t) : news[i].sentiment = "negative"}),
     neutral |-> Cardinality({i \in RecordsOf(news, t) : news[i].sentiment = "neutral"})]

Counts(entry) ==
    [total_news |-> entry.total_news, positive |-> entry.positive,
     negative |-> entry.negative, neutral |-> entry.neutral]

\* C24: the summary is the reduction of the aggregator's output: for the same
\* request parameters (tickers, days, start_date, end_date, max_results) at
\* the same instant, for every ticker t the summary's total_news, positive,
\* negative and neutral for t equal the numbers of records with ticker t,
\* and with each label, in the list returned by get_news.
C24_SummaryReducesListing ==
    (SummaryServed /\ response.fn = Handler) =>
        \A t \in AskedTickers :
            Counts(response.summary[t]) = Reduction(AggregatorOutput, t)

\* the same for requests that set no positive max_results and name no
\* ticker twice
SummaryReducesUnlimitedListing ==
    (SummaryServed /\ response.fn = Handler
        /\ ~(Truthy(max_results_param(Params)) /\ max_results_param(Params).int > 0)
        /\ \A i \in DOMAIN AskedList : LastAsked(i)) =>
        \A t \in AskedTickers :
            Counts(response.summary[t]) = Reduction(AggregatorOutput, t)

\* where a record stands in the order of collection: the place of its ticker
\* in the request, then the place of its headline in the corpus of the ticker
TickerPlace(r) == CHOOSE j \in 1..Len(request.symbols) : request.symbols[j] = r.ticker
CorpusPlace(r) ==
    CHOOSE k \in 1..7 : (common_news(0) \o specific_news(r.ticker, 0))[k].title = r.title
CollectedBefore(x, y) ==
    \/ TickerPlace(x) < TickerPlace(y)
    \/ TickerPlace(x) = TickerPlace(y) /\ CorpusPlace(x) < CorpusPlace(y)

\* C26: the merged order is deterministic on ties: in both the listing and
\* the export output, records with equal published_date appear in the order
\* of their tickers in the request (and, within one ticker, in corpus
\* order), whatever the sort direction.
C26_TiesInRequestOrder ==
    (response # NoResponse /\ (Listing \/ Export)) =>
        \A i, j \in 1..Len(response.news) :
            (i < j /\ response.news[i].published_date = response.news[j].published_date)
                => CollectedBefore(response.news[i], response.news[j])

\* two tickers whose market headlines carry the same date, listed newest
\* first
C26_Witness ==
    /\ response # NoResponse /\ response.fn = "NewsAPI.get_news"
    /\ request.symbols = <<"TSLA", "AAPL">>
    /\ \E i \in 1..Len(response.news) - 1 :
           /\ response.news[i].published_date = response.news[i + 1].published_date
           /\ response.news[i].ticker = "TSLA" /\ response.news[i + 1].ticker = "AAPL"
           /\ \E k \in 1..Len(response.news) :
                  StrLess(response.news[k].published_date, response.news[i].published_date)

\* the handler has sent a response with one of the three status codes
Answered ==
    /\ response.fn = Handler
    /\ "status" \in DOMAIN response
    /\ response.status \in {200, 400, 404}

\* the request reaches int(params.get("days", ...)) with a days that is not
\* the text of an integer
DaysNotNumeric ==
    /\ Path \in {"/api/news", "/api/sentiment_summary", "/api/export"}
    /\ "tickers" \in DOMAIN Params
    /\ HasRaised(days_param(Params, NewsDefaultDays))

\* C30: every GET request handled by FinancialNewsHandler gets exactly one
\* HTTP response (200, 400 or 404), for every value of the days and
\* max_results parameters including non-numeric ones; no parameter value
\* makes the handler raise without responding.  A request is handled in one
\* step, so the claim is that the step ends with a response sent.
C30_EveryGetAnswered == response.fn = Handler => Answered

\* the same for the requests whose days is absent or the text of an integer
EveryGetWithNumericDaysAnswered ==
    (response.fn = Handler /\ ~DaysNotNumeric) => Answered

\* the run of the dashboard fetched for the tickers selected
DashboardFetched ==
    /\ response.fn = "main"
    /\ response.backend_available
    /\ ~response.shown.stopped

SelectedTickers == selected_tickers_of(widgets.all_tickers)

\* the answer of the backend to the request for the current selection
AnswerFor(url, days, max_results) ==
    requests_get(url, request_params(SelectedTickers, days, max_results, session_state,
                          clock.start))

ExportClicked == response.clicked = "Export Sentiment Data (CSV)"

\* C25: the dashboard's response cache is keyed by the request parameters:
\* over any sequence of reruns in which the user changes tickers, days, or
\* the custom start/end dates, fetch_news, fetch_sentiment_summary and
\* fetch_export_data return a cached response only if it was fetched with the
\* same tickers, days, start_date and end_date as the current selection; a
\* parameter change always results in a new API call.
C25_CacheKeyedByParameters ==
    DashboardFetched =>
        /\ response.shown.news_data = AnswerFor("/api/news", selected_days_of(widgets), 1000)
        /\ response.shown.sentiment_summary =
               AnswerFor("/api/sentiment_summary", selected_days_of(widgets), 1000)
        /\ ExportClicked =>
               response.shown.export_data =
                   AnswerFor("/api/export", widgets.export_days, 5000)

\* what is shown was fetched for the tickers and the number of days selected
ShownFetchedForTickersAndDays ==
    DashboardFetched =>
        /\ response.shown.news_data.params.tickers = join(SelectedTickers, ",")
        /\ response.shown.news_data.params.days = selected_days_of(widgets)
        /\ response.shown.sentiment_summary.params.tickers = join(SelectedTickers, ",")
        /\ response.shown.sentiment_summary.params.days = selected_days_of(widgets)
        /\ ExportClicked =>
               /\ response.shown.export_data.params.tickers = join(SelectedTickers, ",")
               /\ response.shown.export_data.params.days = widgets.export_days

(***************************************************************************)
(* C29  The pages of the news list                                         *)
(***************************************************************************)
\* the news list is displayed and is not empty
ListShown == response.fn = "main" /\ response.shown.filtered_news # <<>>

\* the least number of pages of ten that hold n items
Ceiling(n) == CHOOSE k \in 0..n : k * 10 >= n /\ (k - 1) * 10 < n

\* the slices of the pages p..total_pages, one after the other
RECURSIVE SlicesFrom(_, _, _)
SlicesFrom(filtered, p, total_pages) ==
    IF p > total_pages THEN <<>>
    ELSE page_news_of(filtered, p) \o SlicesFrom(filtered, p + 1, total_pages)

\* C29: after any sequence of filter changes, page selections and clicks on
\* First, Previous, Next and Last, when the filtered list has n > 0 items the
\* page displayed is one of 1..total_pages, total_pages is ceil(n / 10), the
\* slice displayed is the slice of that page and holds 1 to 10 items, and the
\* slices of the pages 1..total_pages, one after the other, are the filtered
\* list: no item is on two pages, none is left out, the order is kept.
C29_PagesPartitionTheList ==
    ListShown =>
        /\ response.shown.total_pages = Ceiling(Len(response.shown.filtered_news))
        /\ response.shown.page_number \in 1..response.shown.total_pages
        /\ response.shown.page_news
               = page_news_of(response.shown.filtered_news, response.shown.page_number)
        /\ Len(response.shown.page_news) \in 1..10
        /\ \A p \in 1..response.shown.total_pages :
               Len(page_news_of(response.shown.filtered_news, p)) \in 1..10
        /\ SlicesFrom(response.shown.filtered_news, 1, response.shown.total_pages)
               = response.shown.filtered_news
        /\ session_state["page_number"] = response.shown.page_number

\* the user clicked Last on a list of four pages and sees the last page,
\* which is not full
C29_Witness ==
    /\ ListShown
    /\ response.clicked = "Last"
    /\ response.shown.total_pages = 4
    /\ response.shown.page_number = 4
    /\ Len(response.shown.page_news) = 5
    /\ widgets.sort_option = "Sentiment: Positive first"

\* the list got shorter while its last page was displayed: the page displayed
\* is the last of the shorter list
PageClamped ==
    /\ ListShown
    /\ response.clicked = ""
    /\ widgets.filter_sentiment # AllSentiments
    /\ response.shown.total_pages > 1
    /\ response.shown.page_number = response.shown.total_pages
====
